---- MODULE Spec2Model ----
(***************************************************************************)
(* A model of @reliverse/pathkit: the pure path algebra of the library     *)
(* (normalize, join, resolve, relative) and the import-path conversion     *)
(* engine of convertImportPaths.                                           *)
(*                                                                         *)
(* A string is a sequence of one-character strings, so that every index,   *)
(* slice, prefix test and regular expression of the source is computed as  *)
(* the source computes it.  Indices passed to the JS-named helpers         *)
(* (Slice, LastIndexOf, CharAt) are 0-based, as in the source.             *)
(***************************************************************************)
EXTENDS Integers, Sequences, FiniteSets, TLC

VARIABLES
    pc,          \* position of the caller in the scenario being exercised
    args,        \* the arguments handed to the function under test; for a
                 \* run of convertImportPaths also the faults of the file
                 \* system and the file contents the run starts from
    out,         \* the values returned so far, in call order
    procCwd,     \* process.cwd(), the working directory of the process
    disk,        \* the content of every file of the file system
    fsCalls,     \* the file-system calls a run has made so far
    walk,        \* the locals of a run: strip list, directories still to
                 \* visit, files handed to pMap and how far each one is
    thrown       \* the error a run has rejected with, "none" if none

vars == <<pc, args, out, procCwd, disk, fsCalls, walk, thrown>>

\* The state of a run of convertImportPaths
runVars == <<disk, fsCalls, walk, thrown>>

\* No run of convertImportPaths is going on
NoRun ==
    /\ disk = <<>>
    /\ fsCalls = {}
    /\ walk = <<>>
    /\ thrown = "none"

(***************************************************************************)
(* Characters and strings                                                  *)
(***************************************************************************)
SLASH == "/"
BACK_SLASH == "\\"
DOT == "."
COLON == ":"
DOUBLE_DOT == <<DOT, DOT>>
EMPTY == <<>>

LowerLetters == {"a", "b", "c", "f", "l", "s", "w", "x"}
UpperLetters == {"A", "B", "C", "F", "L", "S", "W", "X"}

\* [A-Za-z]
IsLetter(ch) == ch \in LowerLetters \cup UpperLetters

\* String.prototype.toUpperCase, one character
UpperChar(ch) ==
    CASE ch = "a" -> "A" [] ch = "b" -> "B" [] ch = "c" -> "C"
      [] ch = "f" -> "F" [] ch = "l" -> "L" [] ch = "s" -> "S"
      [] ch = "w" -> "W" [] ch = "x" -> "X" [] OTHER -> ch

toUpperCase(s) == [i \in 1..Len(s) |-> UpperChar(s[i])]

CharAt(s, i) == s[i + 1]

\* String.prototype.slice(a, b) for 0 <= a, 0 <= b
Slice(s, a, b) == SubSeq(s, a + 1, IF b > Len(s) THEN Len(s) ELSE b)

\* String.prototype.substring(a)
Substring(s, a) == SubSeq(s, a + 1, Len(s))

startsWith(s, pre) ==
    /\ Len(s) >= Len(pre)
    /\ SubSeq(s, 1, Len(pre)) = pre

endsWith(s, suf) ==
    /\ Len(s) >= Len(suf)
    /\ SubSeq(s, Len(s) - Len(suf) + 1, Len(s)) = suf

\* String.prototype.lastIndexOf(ch): 0-based, -1 when absent
LastIndexOf(s, ch) ==
    LET hits == {i \in 1..Len(s) : s[i] = ch}
    IN  IF hits = {} THEN -1
        ELSE (CHOOSE i \in hits : \A j \in hits : j <= i) - 1

\* String.prototype.replace(/\\/g, "/")
SlashesForward(s) ==
    [i \in 1..Len(s) |-> IF s[i] = BACK_SLASH THEN SLASH ELSE s[i]]

IsSep(ch) == ch = SLASH \/ ch = BACK_SLASH

\* String.prototype.split("/"): the pieces between separators, empty ones kept
RECURSIVE SplitFrom(_, _, _)
SplitFrom(s, i, cur) ==
    IF i > Len(s) THEN <<cur>>
    ELSE IF s[i] = SLASH THEN <<cur>> \o SplitFrom(s, i + 1, EMPTY)
    ELSE SplitFrom(s, i + 1, Append(cur, s[i]))

Split(s) == SplitFrom(s, 1, EMPTY)

\* Array.prototype.filter(Boolean) on an array of strings
FilterNonEmpty(xs) == SelectSeq(xs, LAMBDA x : Len(x) > 0)

\* Array.prototype.join("/")
RECURSIVE JoinSlash(_)
JoinSlash(xs) ==
    IF Len(xs) = 0 THEN EMPTY
    ELSE IF Len(xs) = 1 THEN xs[1]
    ELSE xs[1] \o <<SLASH>> \o JoinSlash(Tail(xs))

(***************************************************************************)
(* Regular expressions of the path algebra                                 *)
(***************************************************************************)
\* /^[A-Za-z]:\//
DRIVE_LETTER_START_RE(s) ==
    Len(s) >= 3 /\ IsLetter(s[1]) /\ s[2] = COLON /\ s[3] = SLASH

\* /^[A-Za-z]:$/
DRIVE_LETTER_RE(s) ==
    Len(s) = 2 /\ IsLetter(s[1]) /\ s[2] = COLON

\* /^[/\\]{2}/
UNC_REGEX(s) ==
    Len(s) >= 2 /\ IsSep(s[1]) /\ IsSep(s[2])

\* /^[/\\](?![/\\])|^[/\\]{2}(?!\.)|^[A-Za-z]:[/\\]/
IS_ABSOLUTE_RE(s) ==
    \/ Len(s) >= 1 /\ IsSep(s[1]) /\ (Len(s) >= 2 => ~IsSep(s[2]))
    \/ Len(s) >= 2 /\ IsSep(s[1]) /\ IsSep(s[2]) /\ (Len(s) >= 3 => s[3] # DOT)
    \/ Len(s) >= 3 /\ IsLetter(s[1]) /\ s[2] = COLON /\ IsSep(s[3])

\* /^\/([A-Za-z]:)?$/
ROOT_FOLDER_RE(s) ==
    \/ s = <<SLASH>>
    \/ Len(s) = 3 /\ s[1] = SLASH /\ IsLetter(s[2]) /\ s[3] = COLON

\* s.replace(ROOT_FOLDER_RE, "$1")
StripRootFolder(s) ==
    IF ROOT_FOLDER_RE(s) THEN Substring(s, 1) ELSE s

(***************************************************************************)
(* normalizeWindowsPath, normalizeString, normalize                        *)
(***************************************************************************)
normalizeWindowsPath(input) ==
    IF Len(input) = 0 THEN input
    ELSE LET fwd == SlashesForward(input)
         IN  IF DRIVE_LETTER_START_RE(fwd)
             THEN toUpperCase(SubSeq(fwd, 1, 3)) \o Substring(fwd, 3)
             ELSE fwd

\* The body of the loop of normalizeString for one index, char already chosen.
\* st = [res, lastSegmentLength, lastSlash, dots]
nsStep(path, allowAboveRoot, index, char, st) ==
    IF char = SLASH THEN
        IF st.lastSlash = index - 1 \/ st.dots = 1 THEN
            [st EXCEPT !.lastSlash = index, !.dots = 0]
        ELSE IF st.dots = 2 THEN
            IF  \/ Len(st.res) < 2
                \/ st.lastSegmentLength # 2
                \/ ~endsWith(st.res, <<DOT>>)
                \/ CharAt(st.res, Len(st.res) - 2) # DOT
            THEN
                IF Len(st.res) > 2 THEN
                    LET lastSlashIndex == LastIndexOf(st.res, SLASH)
                    IN  IF lastSlashIndex = -1
                        THEN [res |-> EMPTY, lastSegmentLength |-> 0,
                              lastSlash |-> index, dots |-> 0]
                        ELSE LET cut == Slice(st.res, 0, lastSlashIndex)
                             IN  [res |-> cut,
                                  lastSegmentLength |->
                                      Len(cut) - 1 - LastIndexOf(cut, SLASH),
                                  lastSlash |-> index, dots |-> 0]
                ELSE IF Len(st.res) > 0 THEN
                    [res |-> EMPTY, lastSegmentLength |-> 0,
                     lastSlash |-> index, dots |-> 0]
                ELSE IF allowAboveRoot THEN
                    [res |-> DOUBLE_DOT, lastSegmentLength |-> 2,
                     lastSlash |-> index, dots |-> 0]
                ELSE [st EXCEPT !.lastSlash = index, !.dots = 0]
            ELSE IF allowAboveRoot THEN
                [res |-> IF Len(st.res) > 0
                         THEN st.res \o <<SLASH>> \o DOUBLE_DOT
                         ELSE DOUBLE_DOT,
                 lastSegmentLength |-> 2, lastSlash |-> index, dots |-> 0]
            ELSE [st EXCEPT !.lastSlash = index, !.dots = 0]
        ELSE
            LET segment == Slice(path, st.lastSlash + 1, index)
            IN  [res |-> IF Len(st.res) > 0
                         THEN st.res \o <<SLASH>> \o segment
                         ELSE segment,
                 lastSegmentLength |-> Len(segment),
                 lastSlash |-> index, dots |-> 0]
    ELSE IF char = DOT /\ st.dots # -1 THEN [st EXCEPT !.dots = st.dots + 1]
    ELSE [st EXCEPT !.dots = -1]

\* The loop of normalizeString: prev is the char of the previous iteration.
RECURSIVE nsLoop(_, _, _, _, _)
nsLoop(path, allowAboveRoot, index, prev, st) ==
    IF index > Len(path) THEN st.res
    ELSE IF index = Len(path) /\ prev = SLASH THEN st.res
    ELSE LET char == IF index < Len(path) THEN CharAt(path, index) ELSE SLASH
         IN  nsLoop(path, allowAboveRoot, index + 1, char,
                    nsStep(path, allowAboveRoot, index, char, st))

normalizeString(path, allowAboveRoot) ==
    nsLoop(path, allowAboveRoot, 0, "",
           [res |-> EMPTY, lastSegmentLength |-> 0, lastSlash |-> -1, dots |-> 0])

\* normalize(path)
normalize(path) ==
    IF Len(path) = 0 THEN <<DOT>>
    ELSE
    LET originalPath == path
        winPath == normalizeWindowsPath(path)
        isPathAbsolute == IS_ABSOLUTE_RE(winPath)
        trailingSeparator == endsWith(winPath, <<SLASH>>)
        norm == normalizeString(winPath, ~isPathAbsolute)
        withTrailing == IF trailingSeparator /\ ~endsWith(norm, <<SLASH>>)
                        THEN norm \o <<SLASH>> ELSE norm
        withDrive == IF DRIVE_LETTER_RE(withTrailing) /\ Len(withTrailing) = 2
                     THEN withTrailing \o <<SLASH>> ELSE withTrailing
        normOriginal == SlashesForward(originalPath)
        unrooted == IF startsWith(withDrive, <<SLASH>>)
                    THEN Substring(withDrive, 1) ELSE withDrive
    IN  IF Len(norm) = 0 THEN
            IF isPathAbsolute THEN <<SLASH>>
            ELSE IF trailingSeparator /\ Len(originalPath) > 0
                    /\ originalPath # <<DOT>>
                 THEN <<DOT, SLASH>> ELSE <<DOT>>
        ELSE IF UNC_REGEX(normOriginal)
                /\ startsWith(normOriginal, <<SLASH, SLASH, DOT, SLASH>>)
             THEN <<SLASH, SLASH, DOT, SLASH>> \o unrooted
        ELSE IF UNC_REGEX(normOriginal) /\ startsWith(normOriginal, <<SLASH, SLASH>>)
             THEN <<SLASH, SLASH>> \o unrooted
        ELSE IF isPathAbsolute /\ ~IS_ABSOLUTE_RE(withDrive) /\ withDrive # <<SLASH>>
             THEN <<SLASH>> \o withDrive
        ELSE withDrive

(***************************************************************************)
(* join, resolve, relative                                                 *)
(***************************************************************************)
\* The loop of join over the segments, joined being the accumulator.
RECURSIVE joinLoop(_, _)
joinLoop(segments, joined) ==
    IF Len(segments) = 0 THEN joined
    ELSE LET segment == Head(segments)
         IN  joinLoop(Tail(segments),
                      IF Len(segment) > 0
                      THEN IF Len(joined) = 0 THEN segment
                           ELSE joined \o <<SLASH>> \o segment
                      ELSE joined)

\* join(...segments)
join(segments) ==
    IF Len(segments) = 0 THEN <<DOT>>
    ELSE LET joined == joinLoop(segments, EMPTY)
         IN  IF Len(joined) = 0 THEN <<DOT>> ELSE normalize(joined)

\* cwd(): process.cwd() with forward slashes
cwd(processCwd) == SlashesForward(processCwd)

\* resolveLoop with the loop guard "!resolvedAbsolute" forgotten: the loop goes on
\* to the left of an absolute segment and into the working directory.
RECURSIVE resolveLoopNoStop(_, _, _, _)
resolveLoopNoStop(xs, processCwd, i, acc) ==
    IF i < -1 THEN [acc EXCEPT !.resolvedAbsolute =
                        Len(acc.resolvedPath) > 0 /\ IS_ABSOLUTE_RE(acc.resolvedPath)]
    ELSE LET path == IF i >= 0 THEN xs[i + 1] ELSE SlashesForward(processCwd)
         IN  IF Len(path) = 0 THEN resolveLoopNoStop(xs, processCwd, i - 1, acc)
             ELSE resolveLoopNoStop(xs, processCwd, i - 1,
                      [acc EXCEPT !.resolvedPath =
                           normalizeWindowsPath(path) \o <<SLASH>> \o acc.resolvedPath])

\* The loop of resolve, i running from args.length - 1 down to -1.
\* acc = [resolvedPath, resolvedAbsolute]
RECURSIVE resolveLoop(_, _, _, _)
resolveLoop(xs, processCwd, i, acc) ==
    IF i < -1 \/ acc.resolvedAbsolute THEN acc
    ELSE LET path == IF i >= 0 THEN xs[i + 1] ELSE cwd(processCwd)
         IN  IF Len(path) = 0 THEN resolveLoop(xs, processCwd, i - 1, acc)
             ELSE LET normalizedSegment == normalizeWindowsPath(path)
                  IN  resolveLoop(xs, processCwd, i - 1,
                          [resolvedPath |->
                               normalizedSegment \o <<SLASH>> \o acc.resolvedPath,
                           resolvedAbsolute |-> IS_ABSOLUTE_RE(normalizedSegment)])

\* resolve(...args), with the working directory of the process as a parameter
resolve(xs, processCwd) ==
    LET acc == resolveLoop(xs, processCwd, Len(xs) - 1,
                           [resolvedPath |-> EMPTY, resolvedAbsolute |-> FALSE])
        resolvedPath == normalizeString(acc.resolvedPath, ~acc.resolvedAbsolute)
    IN  IF acc.resolvedAbsolute THEN
            IF IS_ABSOLUTE_RE(resolvedPath) THEN resolvedPath
            ELSE <<SLASH>> \o resolvedPath
        ELSE IF Len(resolvedPath) > 0 THEN resolvedPath ELSE <<DOT>>

\* commonLoop counting every position at which the two paths agree, instead of
\* stopping at the first position at which they differ.
commonLoopNoBreak(fromSegments, toSegments, commonSegments) ==
    LET maxCommon == IF Len(fromSegments) < Len(toSegments)
                     THEN Len(fromSegments) ELSE Len(toSegments)
    IN  Cardinality({i \in (commonSegments + 1)..maxCommon :
                        fromSegments[i] = toSegments[i]})

\* The while loop of relative counting the common leading segments.
RECURSIVE commonLoop(_, _, _)
commonLoop(fromSegments, toSegments, commonSegments) ==
    LET maxCommon == IF Len(fromSegments) < Len(toSegments)
                     THEN Len(fromSegments) ELSE Len(toSegments)
    IN  IF commonSegments < maxCommon
           /\ fromSegments[commonSegments + 1] = toSegments[commonSegments + 1]
        THEN commonLoop(fromSegments, toSegments, commonSegments + 1)
        ELSE commonSegments

\* relative(from, to)
relative(from, to, processCwd) ==
    LET resolvedFrom == resolve(<<from>>, processCwd)
        resolvedTo == resolve(<<to>>, processCwd)
        fromSegments == FilterNonEmpty(Split(StripRootFolder(resolvedFrom)))
        toSegments == FilterNonEmpty(Split(StripRootFolder(resolvedTo)))
        commonSegments == commonLoop(fromSegments, toSegments, 0)
        upSegments == [i \in 1..(Len(fromSegments) - commonSegments) |-> DOUBLE_DOT]
        downSegments == SubSeq(toSegments, commonSegments + 1, Len(toSegments))
        result == JoinSlash(upSegments \o downSegments)
    IN  IF resolvedFrom = resolvedTo THEN EMPTY
        ELSE IF /\ Len(fromSegments) > 0
                /\ Len(toSegments) > 0
                /\ DRIVE_LETTER_RE(fromSegments[1])
                /\ DRIVE_LETTER_RE(toSegments[1])
                /\ toUpperCase(fromSegments[1]) # toUpperCase(toSegments[1])
             THEN resolvedTo
        ELSE IF Len(result) > 0 THEN result ELSE <<DOT>>

(***************************************************************************)
(* node:path as the conversion engine uses it (POSIX flavour): resolve,    *)
(* relative, dirname, basename, join, normalize and isAbsolute, computed   *)
(* on the same character sequences.                                        *)
(***************************************************************************)
\* const CWD = process.cwd()
CWD == procCwd

\* path.isAbsolute(p)
path_isAbsolute(p) == Len(p) > 0 /\ p[1] = SLASH

\* The segments of a path with "" and "." dropped and ".." taking back the
\* segment before it; above the start ".." is kept only if allowAboveRoot.
RECURSIVE path_normalizeSegments(_, _, _)
path_normalizeSegments(segments, allowAboveRoot, acc) ==
    IF Len(segments) = 0 THEN acc
    ELSE LET seg == Head(segments)
         IN  path_normalizeSegments(Tail(segments), allowAboveRoot,
                 IF seg = EMPTY \/ seg = <<DOT>> THEN acc
                 ELSE IF seg = DOUBLE_DOT THEN
                     IF Len(acc) > 0 /\ acc[Len(acc)] # DOUBLE_DOT
                     THEN SubSeq(acc, 1, Len(acc) - 1)
                     ELSE IF allowAboveRoot THEN Append(acc, DOUBLE_DOT) ELSE acc
                 ELSE Append(acc, seg))

\* normalizeString(path, allowAboveRoot) of node:path
path_normalizeString(p, allowAboveRoot) ==
    JoinSlash(path_normalizeSegments(Split(p), allowAboveRoot, <<>>))

\* path.normalize once the segments are normalized
path_normalized(isAbsolute, trailingSeparator, body) ==
    IF Len(body) = 0 THEN
        IF isAbsolute THEN <<SLASH>>
        ELSE IF trailingSeparator THEN <<DOT, SLASH>> ELSE <<DOT>>
    ELSE (IF isAbsolute THEN <<SLASH>> ELSE EMPTY)
         \o body
         \o (IF trailingSeparator THEN <<SLASH>> ELSE EMPTY)

\* path.normalize(p)
path_normalize(p) ==
    IF Len(p) = 0 THEN <<DOT>>
    ELSE path_normalized(path_isAbsolute(p), p[Len(p)] = SLASH,
                         path_normalizeString(p, ~path_isAbsolute(p)))

\* The loop of path.resolve, from the last argument to the left and then
\* into the working directory, until the path collected is absolute.
RECURSIVE path_resolveLoop(_, _, _)
path_resolveLoop(xs, i, resolvedPath) ==
    IF i < 0 \/ path_isAbsolute(resolvedPath) THEN resolvedPath
    ELSE LET p == IF i >= 1 THEN xs[i] ELSE CWD
         IN  IF Len(p) = 0 THEN path_resolveLoop(xs, i - 1, resolvedPath)
             ELSE path_resolveLoop(xs, i - 1, p \o <<SLASH>> \o resolvedPath)

\* path.resolve once the collected path is normalized
path_resolved(resolvedAbsolute, body) ==
    IF resolvedAbsolute THEN <<SLASH>> \o body
    ELSE IF Len(body) > 0 THEN body ELSE <<DOT>>

\* path.resolve after its loop
path_resolveCollected(resolvedPath) ==
    path_resolved(path_isAbsolute(resolvedPath),
                  path_normalizeString(resolvedPath, ~path_isAbsolute(resolvedPath)))

\* path.resolve(...xs)
path_resolve(xs) == path_resolveCollected(path_resolveLoop(xs, Len(xs), EMPTY))

\* path.relative for the segments of two resolved paths that differ
path_relativeParts(fromParts, toParts) ==
    LET shorter == IF Len(fromParts) < Len(toParts) THEN Len(fromParts)
                   ELSE Len(toParts)
        same == {k \in 0..shorter :
                     SubSeq(fromParts, 1, k) = SubSeq(toParts, 1, k)}
        common == CHOOSE k \in same : \A j \in same : j <= k
    IN  JoinSlash([i \in 1..(Len(fromParts) - common) |-> DOUBLE_DOT]
                  \o SubSeq(toParts, common + 1, Len(toParts)))

\* path.relative once both paths are resolved
path_relativeResolved(resolvedFrom, resolvedTo) ==
    IF resolvedFrom = resolvedTo THEN EMPTY
    ELSE path_relativeParts(FilterNonEmpty(Split(resolvedFrom)),
                            FilterNonEmpty(Split(resolvedTo)))

\* path.relative(from, to)
path_relative(from, to) ==
    path_relativeResolved(path_resolve(<<from>>), path_resolve(<<to>>))

\* path.dirname(p)
path_dirname(p) ==
    IF Len(p) = 0 THEN <<DOT>>
    ELSE LET hasRoot == p[1] = SLASH
             named == {i \in 1..Len(p) : p[i] # SLASH}
             lastNamed == CHOOSE i \in named : \A j \in named : j <= i
             cuts == {i \in 2..lastNamed : p[i] = SLASH}
             end == CHOOSE i \in cuts : \A j \in cuts : j <= i
         IN  IF named = {} \/ cuts = {}
             THEN (IF hasRoot THEN <<SLASH>> ELSE <<DOT>>)
             ELSE IF hasRoot /\ end = 2 THEN <<SLASH, SLASH>>
             ELSE SubSeq(p, 1, end - 1)

\* The last element of a list of segments, "" for an empty list
lastOrEmpty(parts) == IF Len(parts) = 0 THEN EMPTY ELSE parts[Len(parts)]

\* path.basename(p)
path_basename(p) == lastOrEmpty(FilterNonEmpty(Split(p)))

\* path.join once the arguments are put together
path_joined(joined) ==
    IF Len(joined) = 0 THEN <<DOT>> ELSE path_normalize(joined)

\* path.join(...xs)
path_join(xs) == path_joined(JoinSlash(FilterNonEmpty(xs)))

(***************************************************************************)
(* The converters of the conversion engine.                                *)
(* opts = [sourceFile, baseDir, aliasPrefix, strip]                        *)
(***************************************************************************)
\* newBaseDir after the loop "for (i < parts.length - 1) dirname(newBaseDir)"
RECURSIVE walkUp(_, _)
walkUp(dir, times) ==
    IF times <= 0 THEN dir ELSE walkUp(path_dirname(dir), times - 1)

\* newBaseDir: the directory of sourceFile, walked up once per directory of
\* the path of sourceFile relative to baseDir
newBaseDirOf(sourceFile, sourceFileRelativeToBase) ==
    walkUp(path_dirname(sourceFile),
           Len(Split(SlashesForward(sourceFileRelativeToBase))) - 1)

convertAbsoluteToAlias(ip, opts) ==
    opts.aliasPrefix \o SlashesForward(path_relative(opts.baseDir, ip))

\* "./" put in front of a relative path that starts with neither "." nor "/"
ensureDotSlash(relativePath) ==
    IF ~startsWith(relativePath, <<DOT>>) /\ ~path_isAbsolute(relativePath)
    THEN <<DOT, SLASH>> \o relativePath
    ELSE relativePath

convertAbsoluteToRelative(ip, opts) ==
    ensureDotSlash(SlashesForward(path_relative(path_dirname(opts.sourceFile), ip)))

\* convertAliasToAbsolute for an import that starts with the prefix
aliasTarget(opts, subPath, sourceFileRelativeToBase) ==
    path_resolve(IF Len(sourceFileRelativeToBase) > 0
                 THEN <<newBaseDirOf(opts.sourceFile, sourceFileRelativeToBase)>>
                      \o FilterNonEmpty(Split(subPath))
                 ELSE <<opts.baseDir, subPath>>)

convertAliasToAbsolute(ip, opts) ==
    IF ~startsWith(ip, opts.aliasPrefix) THEN ip
    ELSE aliasTarget(opts, Substring(ip, Len(opts.aliasPrefix)),
                     path_relative(opts.baseDir, opts.sourceFile))

convertAliasToRelative(ip, opts) ==
    IF ~startsWith(ip, opts.aliasPrefix) THEN ip
    ELSE convertAbsoluteToRelative(convertAliasToAbsolute(ip, opts), opts)

convertRelativeToAbsolute(ip, opts) ==
    path_resolve(<<path_dirname(opts.sourceFile), ip>>)

convertRelativeToAlias(ip, opts) ==
    convertAbsoluteToAlias(convertRelativeToAbsolute(ip, opts), opts)

\* The import types of the model: the three that denote a file
ImportTypes == {"absolute", "alias", "relative"}

\* conversionMapping has an entry for the pair fromType:toType
HasConverter(fromType, toType) ==
    fromType \in ImportTypes /\ toType \in ImportTypes /\ fromType # toType

\* conversionMapping[`${fromType}:${toType}`](ip, opts)
conversionMapping(fromType, toType, ip, opts) ==
    CASE fromType = "absolute" /\ toType = "alias" -> convertAbsoluteToAlias(ip, opts)
      [] fromType = "absolute" /\ toType = "relative" -> convertAbsoluteToRelative(ip, opts)
      [] fromType = "alias" /\ toType = "absolute" -> convertAliasToAbsolute(ip, opts)
      [] fromType = "alias" /\ toType = "relative" -> convertAliasToRelative(ip, opts)
      [] fromType = "relative" /\ toType = "absolute" -> convertRelativeToAbsolute(ip, opts)
      [] fromType = "relative" /\ toType = "alias" -> convertRelativeToAlias(ip, opts)

\* /^((\.\.\/|\.\/)+)/ : the length of the leading run of "../" and "./"
RECURSIVE leadingLength(_, _)
leadingLength(s, at) ==
    IF startsWith(Substring(s, at), <<DOT, DOT, SLASH>>) THEN leadingLength(s, at + 3)
    ELSE IF startsWith(Substring(s, at), <<DOT, SLASH>>) THEN leadingLength(s, at + 2)
    ELSE at

\* One round of the strip loop: the segment taken out after the leading run
stripOne(normalizedStripSegment, processedPath, leading) ==
    IF startsWith(Substring(processedPath, leading), normalizedStripSegment)
    THEN SubSeq(processedPath, 1, leading)
         \o Substring(processedPath, leading + Len(normalizedStripSegment))
    ELSE processedPath

\* The loop "for (const stripSegment of strip)" over processedPath
RECURSIVE stripLoop(_, _)
stripLoop(strip, processedPath) ==
    IF Len(strip) = 0 THEN processedPath
    ELSE stripLoop(Tail(strip),
             stripOne(IF endsWith(Head(strip), <<SLASH>>) THEN Head(strip)
                      ELSE Head(strip) \o <<SLASH>>,
                      processedPath,
                      leadingLength(processedPath, 0)))

\* "./" put in front of a path that does not start with "."
ensureDot(processedPath) ==
    IF startsWith(processedPath, <<DOT>>) THEN processedPath
    ELSE <<DOT, SLASH>> \o processedPath

\* The relative path from a directory to a target, starting with "."
dotRelative(fromDir, target) ==
    ensureDot(SlashesForward(path_relative(fromDir, target)))

\* "Verify path resolution": the stripped path is kept if it still resolves
\* to the target of the converted path
verifyStripped(importingFileDir, processedPath, preStripAbsoluteTarget) ==
    IF path_normalize(preStripAbsoluteTarget)
       # path_normalize(path_resolve(<<importingFileDir, processedPath>>))
    THEN dotRelative(importingFileDir, preStripAbsoluteTarget)
    ELSE processedPath

\* "Original stripping logic for other cases"
stripSegments(strip, convertedPath, importingFileDir) ==
    verifyStripped(importingFileDir, stripLoop(strip, convertedPath),
                   path_resolve(<<importingFileDir, convertedPath>>))

\* The branch for an alias import: importing and imported file both lie
\* below baseDir
movedFiles(fullOptions, convertedPath, importingFileDir, importingFileRelativeToBase, targetFileRelativeToBase) ==
    IF Len(importingFileRelativeToBase) > 0 /\ Len(targetFileRelativeToBase) > 0
    THEN dotRelative(importingFileDir,
             path_join(<<newBaseDirOf(fullOptions.sourceFile,
                                      importingFileRelativeToBase),
                         path_basename(targetFileRelativeToBase)>>))
    ELSE stripSegments(fullOptions.strip, convertedPath, importingFileDir)

\* The post-processing of convertSingleImportPath, entered with a strip list
stripPostProcess(fromType, importPath, fullOptions, convertedPath, importingFileDir) ==
    IF fromType = "alias" /\ Len(fullOptions.baseDir) > 0
    THEN movedFiles(fullOptions, convertedPath, importingFileDir,
             path_relative(fullOptions.baseDir, fullOptions.sourceFile),
             path_relative(fullOptions.baseDir,
                 path_resolve(<<fullOptions.baseDir,
                                Substring(importPath,
                                          Len(fullOptions.aliasPrefix))>>)))
    ELSE stripSegments(fullOptions.strip, convertedPath, importingFileDir)

\* convertSingleImportPath after the converter has been applied
postProcess(fromType, importPath, fullOptions, convertedPath) ==
    IF /\ Len(fullOptions.strip) > 0
       /\ convertedPath # importPath
       /\ Len(fullOptions.sourceFile) > 0
    THEN stripPostProcess(fromType, importPath, fullOptions, convertedPath,
                          path_dirname(fullOptions.sourceFile))
    ELSE convertedPath

\* aliasPrefix: options.aliasPrefix ?? "~/"; a prefix that was not given is
\* the empty string here
withDefaultPrefix(options) ==
    [options EXCEPT !.aliasPrefix = IF Len(@) = 0 THEN <<"~", SLASH>> ELSE @]

\* convertSingleImportPath(fromType, toType, importPath, options)
convertSingleImportPath(fromType, toType, importPath, options) ==
    IF ~HasConverter(fromType, toType) THEN importPath
    ELSE postProcess(fromType, importPath, withDefaultPrefix(options),
             conversionMapping(fromType, toType, importPath,
                               withDefaultPrefix(options)))

\* pattern.replace(/\/\//g, "/")
RECURSIVE collapseDoubleSlashes(_)
collapseDoubleSlashes(s) ==
    IF Len(s) < 2 THEN s
    ELSE IF s[1] = SLASH /\ s[2] = SLASH
         THEN <<SLASH>> \o collapseDoubleSlashes(Substring(s, 2))
         ELSE <<s[1]>> \o collapseDoubleSlashes(Substring(s, 1))

\* A derived segment is kept: non-empty, not ".", not starting with "..",
\* not "/"
IsStripCandidate(segment) ==
    /\ Len(segment) > 0
    /\ segment # <<DOT>>
    /\ ~startsWith(segment, DOUBLE_DOT)
    /\ segment # <<SLASH>>

\* dir is the root of the file system: dir === path.dirname(dir)
IsFsRoot(dir) == dir = path_dirname(dir)

\* The choice between greatGrandParentDir and grandParentDir
ancestorTop(grandParentDir, greatGrandParentDir) ==
    IF greatGrandParentDir # grandParentDir /\ ~IsFsRoot(greatGrandParentDir)
    THEN greatGrandParentDir
    ELSE grandParentDir

\* The choice between the directories above parentDir and parentDir
ancestorAbove(parentDir, grandParentDir) ==
    IF grandParentDir # parentDir /\ ~IsFsRoot(grandParentDir)
    THEN ancestorTop(grandParentDir, path_dirname(grandParentDir))
    ELSE parentDir

\* The choice of the ancestor, parentDir known
ancestorFrom(baseDir, parentDir) ==
    IF parentDir # baseDir /\ ~IsFsRoot(parentDir)
    THEN ancestorAbove(parentDir, path_dirname(parentDir))
    ELSE IF baseDir # CWD /\ parentDir # baseDir THEN parentDir
    ELSE CWD

\* The ancestor of baseDir that the structural strip segment is relative to
ancestorDirForRelativePath(baseDir) == ancestorFrom(baseDir, path_dirname(baseDir))

\* Set.prototype.add on a list kept in insertion order
addOnce(xs, x) ==
    IF \E i \in 1..Len(xs) : xs[i] = x THEN xs ELSE Append(xs, x)

\* The pattern added unless it is trivial
addPattern(patterns, pattern) ==
    IF Len(pattern) > 1 /\ pattern # <<SLASH>> /\ pattern # <<DOT, SLASH>>
    THEN addOnce(patterns, pattern)
    ELSE patterns

\* A segment with forward slashes and a slash at its end
slashEnded(segment) ==
    IF endsWith(segment, <<SLASH>>) THEN segment ELSE segment \o <<SLASH>>

\* The loop over the derived segments: each one becomes a strip pattern
RECURSIVE addPatterns(_, _)
addPatterns(patterns, segments) ==
    IF Len(segments) = 0 THEN patterns
    ELSE addPatterns(
             addPattern(patterns,
                 collapseDoubleSlashes(slashEnded(SlashesForward(Head(segments))))),
             Tail(segments))

\* A derived path as a list of candidates: itself if it qualifies
candidateSegments(derivedPath) ==
    IF IsStripCandidate(derivedPath) THEN <<derivedPath>> ELSE <<>>

\* "Attempt 2": the basename of baseDir joins the derived segments
withBaseDirName(segments, baseDirName) ==
    IF IsStripCandidate(baseDirName)
    THEN addOnce(segments, SlashesForward(baseDirName))
    ELSE segments

\* "Fallback": with nothing derived, the path of baseDir relative to CWD
withFallback(baseDir, segments) ==
    IF Len(segments) = 0 /\ baseDir # CWD
    THEN candidateSegments(SlashesForward(path_relative(CWD, baseDir)))
    ELSE segments

\* derivedAliasPathSegments, in insertion order
derivedAliasPathSegments(baseDir) ==
    withFallback(baseDir,
        withBaseDirName(
            candidateSegments(SlashesForward(
                path_relative(ancestorDirForRelativePath(baseDir), baseDir))),
            path_basename(baseDir)))

\* The strip list convertImportPaths hands to the converters
deriveStrip(fromType, baseDir, userProvidedStrip) ==
    IF fromType # "alias" THEN userProvidedStrip
    ELSE addPatterns(userProvidedStrip, derivedAliasPathSegments(baseDir))

(***************************************************************************)
(* Decomposition of a path: isAbsolute, toNamespacedPath, extname,         *)
(* dirname, basename and parse                                             *)
(***************************************************************************)
PATH_ROOT_RE(s) ==
    \/ Len(s) >= 1 /\ IsSep(s[1])
    \/ Len(s) >= 3 /\ IsLetter(s[1]) /\ s[2] = COLON /\ IsSep(s[3])

\* PATH_ROOT_RE.exec(s)[0] for a matching s
pathRootMatch(s) == IF IsSep(s[1]) THEN <<s[1]>> ELSE SubSeq(s, 1, 3)

\* String.prototype.lastIndexOf(ch, fromIndex): the search starts at
\* fromIndex and goes backwards
LastIndexOfFrom(s, ch, fromIndex) ==
    LastIndexOf(SubSeq(s, 1, IF fromIndex + 1 > Len(s) THEN Len(s)
                             ELSE fromIndex + 1), ch)

isAbsolute(p) == IS_ABSOLUTE_RE(normalizeWindowsPath(p))

toNamespacedPath(p) == IF Len(p) = 0 THEN p ELSE normalize(p)

extnameOfBase(basePart) ==
    IF basePart = <<DOT>> \/ basePart = DOUBLE_DOT THEN EMPTY
    ELSE IF LastIndexOf(basePart, DOT) <= 0 THEN EMPTY
    ELSE Substring(basePart, LastIndexOf(basePart, DOT))

extnameOfPath(path, lastSlashIdx) ==
    extnameOfBase(IF lastSlashIdx = 0 THEN path
                  ELSE Substring(path, lastSlashIdx + 1))

extnameFrom(path, found) == extnameOfPath(path, IF found = -1 THEN 0 ELSE found)

extname(p) ==
    extnameFrom(normalizeWindowsPath(p),
                LastIndexOf(normalizeWindowsPath(p), SLASH))

dirnameOfDir(dir) ==
    IF DRIVE_LETTER_RE(dir) /\ Len(dir) = 2 THEN dir \o <<SLASH>>
    ELSE normalize(dir)

dirnameOfPath(normalizedPath, lastSlash) ==
    IF lastSlash = -1
    THEN IF IS_ABSOLUTE_RE(normalizedPath) THEN <<SLASH>> ELSE <<DOT>>
    ELSE IF lastSlash = 0 THEN <<SLASH>>
    ELSE dirnameOfDir(Slice(normalizedPath, 0, lastSlash))

dirname(p) ==
    IF Len(p) = 0 THEN <<DOT>>
    ELSE dirnameOfPath(normalizeWindowsPath(p),
                       LastIndexOf(normalizeWindowsPath(p), SLASH))

\* The index basename stops at once the trailing slashes are skipped
RECURSIVE basenameEnd(_, _)
basenameEnd(normalizedPath, end) ==
    IF end > 0 /\ normalizedPath[end] = SLASH
    THEN basenameEnd(normalizedPath, end - 1)
    ELSE end

basenameStart(found) == IF found = -1 THEN 0 ELSE found + 1

basenameWithoutExt(filename, ext) ==
    IF Len(ext) > 0 /\ endsWith(filename, ext) /\ filename # ext
    THEN Slice(filename, 0, Len(filename) - Len(ext))
    ELSE filename

basenameUpTo(normalizedPath, end, ext) ==
    IF end = 0 THEN EMPTY
    ELSE basenameWithoutExt(
             Slice(normalizedPath,
                   basenameStart(LastIndexOfFrom(normalizedPath, SLASH, end - 1)),
                   end),
             ext)

\* basename(p, ext); ext is EMPTY when the caller gives none
basename(p, ext) ==
    basenameUpTo(normalizeWindowsPath(p),
                 basenameEnd(normalizeWindowsPath(p),
                             Len(normalizeWindowsPath(p))),
                 ext)

\* The root parse reports for a path that PATH_ROOT_RE matches
parseRoot(normalizedPath, D) ==
    LET R == pathRootMatch(normalizedPath)
    IN  IF /\ DRIVE_LETTER_RE(R) /\ Len(R) = 2
           /\ Len(normalizedPath) > 2 /\ normalizedPath[3] = SLASH
        THEN R \o <<SLASH>>
        ELSE IF R = <<SLASH>> /\ startsWith(D, <<SLASH, SLASH>>) /\ UNC_REGEX(D)
        THEN LET uncParts == SubSeq(Split(D), 1,
                                    IF Len(Split(D)) < 3 THEN Len(Split(D)) ELSE 3)
             IN  IF Len(JoinSlash(uncParts)) > 0 THEN JoinSlash(uncParts) ELSE R
        ELSE R

parseParts(normalizedPath, B, E, D, R) ==
    [root |-> R,
     dir |-> IF D = <<DOT>> /\ R # EMPTY /\ R # <<DOT>> THEN R ELSE D,
     base |-> B,
     ext |-> E,
     name |-> Slice(B, 0, Len(B) - Len(E))]

parseOf(normalizedPath, B, D) ==
    parseParts(normalizedPath, B, extname(B), D,
               IF PATH_ROOT_RE(normalizedPath) THEN parseRoot(normalizedPath, D)
               ELSE EMPTY)

parse(p) ==
    parseOf(normalizeWindowsPath(p),
            basename(normalizeWindowsPath(p), EMPTY),
            dirname(normalizeWindowsPath(p)))

(***************************************************************************)
(* JavaScript values as arguments.  The signatures say string, and the     *)
(* functions are callable with any value; a value is known by its typeof,  *)
(* by whether it is falsy, by its length property (a set, empty when it    *)
(* has none) and, for a string, by its characters.                         *)
(***************************************************************************)
NoLength == {}

JsValue(typeof, name, falsy, length, chars) ==
    [typeof |-> typeof, name |-> name, falsy |-> falsy, length |-> length,
     chars |-> chars]

JsNull == JsValue("object", "null", TRUE, NoLength, EMPTY)
JsUndefined == JsValue("undefined", "undefined", TRUE, NoLength, EMPTY)
JsZero == JsValue("number", "0", TRUE, NoLength, EMPTY)
JsNumber == JsValue("number", "123", FALSE, NoLength, EMPTY)
JsTrue == JsValue("boolean", "true", FALSE, NoLength, EMPTY)
JsFalse == JsValue("boolean", "false", TRUE, NoLength, EMPTY)
JsObject == JsValue("object", "{}", FALSE, NoLength, EMPTY)
JsEmptyArray == JsValue("object", "[]", FALSE, {0}, EMPTY)
JsString(s) == JsValue("string", "string", Len(s) = 0, {Len(s)}, s)
JsBoolean(b) == IF b THEN JsTrue ELSE JsFalse
JsRecord(r) == JsValue("object", "record", FALSE, NoLength, r)

\* Reading a property of null or undefined throws
IsNullish(v) == v = JsNull \/ v = JsUndefined

\* What a call ends in: a returned value or a thrown error
Returned(v) == [kind |-> "return", value |-> v, error |-> "none"]
Threw(e) == [kind |-> "throw", value |-> JsUndefined, error |-> e]

\* normalizeWindowsPath(input) for any value: a falsy value is returned as
\* it is, any other non-string has no replace method
normalizeWindowsPathCall(v) ==
    IF v.falsy THEN Returned(v)
    ELSE IF v.typeof # "string" THEN Threw("TypeError")
    ELSE Returned(JsString(normalizeWindowsPath(v.chars)))

\* normalize(path): path.length is read first, then normalizeWindowsPath
\* is called, then path.endsWith, which only a string has
normalizeCall(v) ==
    IF IsNullish(v) THEN Threw("TypeError")
    ELSE IF 0 \in v.length THEN Returned(JsString(<<DOT>>))
    ELSE IF normalizeWindowsPathCall(v).kind = "throw"
    THEN normalizeWindowsPathCall(v)
    ELSE IF v.typeof # "string" THEN Threw("TypeError")
    ELSE Returned(JsString(normalize(v.chars)))

\* join(segment)
joinCall(v) ==
    IF v.typeof # "string" THEN Threw("TypeError")
    ELSE Returned(JsString(join(<<v.chars>>)))

\* resolve(path)
resolveCall(v, processCwd) ==
    IF v.typeof # "string" THEN Threw("TypeError")
    ELSE Returned(JsString(resolve(<<v.chars>>, processCwd)))

isAbsoluteCall(v) ==
    IF v.typeof # "string" THEN Returned(JsFalse)
    ELSE Returned(JsBoolean(isAbsolute(v.chars)))

toNamespacedPathCall(v) ==
    IF v.typeof # "string" \/ 0 \in v.length THEN Returned(v)
    ELSE Returned(JsString(normalize(v.chars)))

extnameCall(v) ==
    IF v.typeof # "string" THEN Returned(JsString(EMPTY))
    ELSE Returned(JsString(extname(v.chars)))

dirnameCall(v) ==
    IF v.typeof # "string" \/ 0 \in v.length THEN Returned(JsString(<<DOT>>))
    ELSE Returned(JsString(dirname(v.chars)))

basenameCall(v) ==
    IF v.typeof # "string" THEN Threw("TypeError")
    ELSE Returned(JsString(basename(v.chars, EMPTY)))

parseCall(v) ==
    IF v.typeof # "string" THEN Threw("TypeError")
    ELSE Returned(JsRecord(parse(v.chars)))

PathFunctions ==
    {"normalize", "join", "resolve", "isAbsolute", "dirname", "basename",
     "extname", "parse", "toNamespacedPath"}

pathCall(fn, v, processCwd) ==
    CASE fn = "normalize" -> normalizeCall(v)
      [] fn = "join" -> joinCall(v)
      [] fn = "resolve" -> resolveCall(v, processCwd)
      [] fn = "isAbsolute" -> isAbsoluteCall(v)
      [] fn = "dirname" -> dirnameCall(v)
      [] fn = "basename" -> basenameCall(v)
      [] fn = "extname" -> extnameCall(v)
      [] fn = "parse" -> parseCall(v)
      [] fn = "toNamespacedPath" -> toNamespacedPathCall(v)

(***************************************************************************)
(* Alias tables.  An object is known by its identity, by its entries in    *)
(* the order Object.entries lists them and by whether it carries the       *)
(* non-enumerable normalizedAliasSymbol.                                   *)
(***************************************************************************)
AliasEntry(key, value) == [key |-> key, value |-> value]

AliasObject(id, entries, normalizedAliasSymbol) ==
    [id |-> id, entries |-> entries,
     normalizedAliasSymbol |-> normalizedAliasSymbol]

compareAliases(a, b) == Len(Split(b)) - Len(Split(a))

\* Array.prototype.sort is stable: an entry goes behind every entry that
\* compareAliases does not put after it
insertEntry(sorted, e) ==
    LET pos == Cardinality({i \in 1..Len(sorted) :
                               compareAliases(sorted[i].key, e.key) <= 0})
    IN  SubSeq(sorted, 1, pos) \o <<e>> \o SubSeq(sorted, pos + 1, Len(sorted))

RECURSIVE sortEntries(_, _)
sortEntries(entries, sorted) ==
    IF Len(entries) = 0 THEN sorted
    ELSE sortEntries(Tail(entries), insertEntry(sorted, Head(entries)))

\* Object.fromEntries: a key met again keeps its place and takes the new value
RECURSIVE fromEntries(_, _)
fromEntries(entries, obj) ==
    IF Len(entries) = 0 THEN obj
    ELSE fromEntries(
             Tail(entries),
             IF \E i \in 1..Len(obj) : obj[i].key = Head(entries).key
             THEN [i \in 1..Len(obj) |->
                      IF obj[i].key = Head(entries).key THEN Head(entries)
                      ELSE obj[i]]
             ELSE Append(obj, Head(entries)))

normalizeEntry(e) ==
    AliasEntry(normalizeWindowsPath(e.key), normalizeWindowsPath(e.value))

sortedAliasesOf(aliases) ==
    fromEntries(sortEntries([i \in 1..Len(aliases.entries) |->
                                normalizeEntry(aliases.entries[i])], <<>>),
                <<>>)

\* The body of the inner loop for the key at k and the alias prefix at j
resolveNestedStep(sortedAliases, key, aliasPrefix, value, k, j) ==
    IF aliasPrefix = key \/ startsWith(key, aliasPrefix \o <<SLASH>>)
    THEN sortedAliases
    ELSE IF /\ startsWith(value, aliasPrefix)
            /\ \/ Len(value) = Len(aliasPrefix)
               \/ value[Len(aliasPrefix) + 1] = SLASH
    THEN [sortedAliases EXCEPT
             ![k].value = sortedAliases[j].value
                          \o Substring(value, Len(aliasPrefix))]
    ELSE sortedAliases

RECURSIVE resolveNestedFor(_, _, _)
resolveNestedFor(sortedAliases, k, j) ==
    IF j > Len(sortedAliases) THEN sortedAliases
    ELSE resolveNestedFor(
             resolveNestedStep(sortedAliases, sortedAliases[k].key,
                               sortedAliases[j].key, sortedAliases[k].value,
                               k, j),
             k, j + 1)

RECURSIVE resolveNested(_, _)
resolveNested(sortedAliases, k) ==
    IF k > Len(sortedAliases) THEN sortedAliases
    ELSE resolveNested(resolveNestedFor(sortedAliases, k, 1), k + 1)

\* normalizeAliases past its early return: a new object, marked
finalNormalizedAliases(aliases, freshId) ==
    AliasObject(freshId, resolveNested(sortedAliasesOf(aliases), 1), TRUE)

\* normalizeAliases without the early return for a marked table
normalizeAliasesAlwaysNew(aliases, freshId) ==
    finalNormalizedAliases(aliases, freshId)

\* normalizeAliases(aliases); freshId is the identity of the next object
\* the call would create
normalizeAliases(aliases, freshId) ==
    IF aliases.normalizedAliasSymbol THEN aliases
    ELSE finalNormalizedAliases(aliases, freshId)

withSlash(s) == IF endsWith(s, <<SLASH>>) THEN s ELSE s \o <<SLASH>>

RECURSIVE resolveAliasLoop(_, _, _)
resolveAliasLoop(normalizedPath, entries, i) ==
    IF i > Len(entries) THEN normalizedPath
    ELSE IF startsWith(withSlash(normalizedPath), withSlash(entries[i].key))
    THEN join(<<entries[i].value,
                Substring(normalizedPath,
                          IF Len(entries[i].key) > Len(normalizedPath)
                          THEN Len(normalizedPath) ELSE Len(entries[i].key))>>)
    ELSE IF normalizedPath = entries[i].key THEN entries[i].value
    ELSE resolveAliasLoop(normalizedPath, entries, i + 1)

resolveAlias(path, aliases, freshId) ==
    resolveAliasLoop(normalizeWindowsPath(path),
                     normalizeAliases(aliases, freshId).entries, 1)

\* What one entry adds to the matches of reverseResolveAlias
reverseMatchesOf(normalizedPath, alias, to) ==
    (IF startsWith(withSlash(normalizedPath), withSlash(to))
     THEN <<join(<<alias,
                   Substring(normalizedPath,
                             IF Len(to) > Len(normalizedPath)
                             THEN Len(normalizedPath) ELSE Len(to))>>)>>
     ELSE <<>>)
    \o (IF normalizedPath = to THEN <<alias>> ELSE <<>>)

RECURSIVE reverseResolveLoop(_, _, _, _)
reverseResolveLoop(normalizedPath, entries, i, matches) ==
    IF i > Len(entries) THEN matches
    ELSE reverseResolveLoop(
             normalizedPath, entries, i + 1,
             matches \o reverseMatchesOf(normalizedPath, entries[i].key,
                                         entries[i].value))

\* Array.prototype.sort((a, b) => b.length - a.length): stable
insertByLength(sorted, m) ==
    LET pos == Cardinality({i \in 1..Len(sorted) : Len(m) - Len(sorted[i]) <= 0})
    IN  SubSeq(sorted, 1, pos) \o <<m>> \o SubSeq(sorted, pos + 1, Len(sorted))

RECURSIVE sortByLength(_, _)
sortByLength(matches, sorted) ==
    IF Len(matches) = 0 THEN sorted
    ELSE sortByLength(Tail(matches), insertByLength(sorted, Head(matches)))

reverseResolveAlias(path, aliases, freshId) ==
    sortByLength(
        reverseResolveLoop(normalizeWindowsPath(path),
                           normalizeAliases(aliases, freshId).entries, 1, <<>>),
        <<>>)

(***************************************************************************)
(* getFileImportsExports: the scan of a source text for import and export  *)
(* statements                                                              *)
(***************************************************************************)
ImportWord == <<"i", "m", "p", "o", "r", "t">>
ExportWord == <<"e", "x", "p", "o", "r", "t">>
TypeWord == <<"t", "y", "p", "e">>
AsWord == <<"a", "s">>
FromWord == <<"f", "r", "o", "m">>
ImportType == <<"i", "m", "p", "o", "r", "t", " ", "t", "y", "p", "e">>
ExportType == <<"e", "x", "p", "o", "r", "t", " ", "t", "y", "p", "e">>
SpacedAs == <<" ", "a", "s", " ">>
HttpScheme == <<"h", "t", "t", "p", ":", "/", "/">>
HttpsScheme == <<"h", "t", "t", "p", "s", ":", "/", "/">>
DtsExt == <<".", "d", ".", "t", "s">>
JsExt == <<".", "j", "s">>
JsxExt == <<".", "j", "s", "x">>
TsExt == <<".", "t", "s">>
TsxExt == <<".", "t", "s", "x">>

\* \s, on the characters source texts are written with here
IsWhitespace(ch) == ch = " "

\* \w: every character of a source text that is no space and no punctuation
IsWordChar(ch) ==
    ch \notin {" ", "{", "}", ",", "*", "'", "\"", "(", ")", ".", "/", "@",
               "~", ":", "-", ";"}

\* String.prototype.includes
includes(s, sub) ==
    \E i \in 1..(Len(s) - Len(sub) + 1) : SubSeq(s, i, i + Len(sub) - 1) = sub

\* The literal lit stands in s at position i (positions count from 1)
LiteralAt(s, i, lit) ==
    /\ i >= 1
    /\ i + Len(lit) - 1 <= Len(s)
    /\ SubSeq(s, i, i + Len(lit) - 1) = lit

\* The position behind the longest run of whitespace that starts at i
RECURSIVE afterSpaces(_, _)
afterSpaces(s, i) ==
    IF i <= Len(s) /\ IsWhitespace(s[i]) THEN afterSpaces(s, i + 1) ELSE i

\* The position behind the longest run of \w that starts at i
RECURSIVE afterWord(_, _)
afterWord(s, i) ==
    IF i <= Len(s) /\ IsWordChar(s[i]) THEN afterWord(s, i + 1) ELSE i

\* String.prototype.trim
RECURSIVE trimStart(_)
trimStart(s) ==
    IF Len(s) > 0 /\ IsWhitespace(s[1]) THEN trimStart(Tail(s)) ELSE s

RECURSIVE trimEnd(_)
trimEnd(s) ==
    IF Len(s) > 0 /\ IsWhitespace(s[Len(s)])
    THEN trimEnd(SubSeq(s, 1, Len(s) - 1))
    ELSE s

trim(s) == trimEnd(trimStart(s))

\* String.prototype.split(sep) for a non-empty separator
RECURSIVE splitBy(_, _, _, _)
splitBy(s, sep, i, cur) ==
    IF i > Len(s) THEN <<cur>>
    ELSE IF LiteralAt(s, i, sep)
    THEN <<cur>> \o splitBy(s, sep, i + Len(sep), EMPTY)
    ELSE splitBy(s, sep, i + 1, Append(cur, s[i]))

getImportExtensionOf(path, lastDotIndex) ==
    IF lastDotIndex <= 0 \/ lastDotIndex = Len(path) - 1 THEN EMPTY
    ELSE IF endsWith(path, DtsExt) THEN DtsExt
    ELSE Substring(path, lastDotIndex)

getImportExtension(path) ==
    IF Len(path) = 0 THEN EMPTY
    ELSE getImportExtensionOf(path, LastIndexOf(path, DOT))

realExtensionOf(pathExt) ==
    IF Len(pathExt) = 0 THEN EMPTY
    ELSE IF pathExt = JsExt \/ pathExt = JsxExt
    THEN IF pathExt = JsxExt THEN TsxExt ELSE TsExt
    ELSE pathExt

getRealFileExtension(path, pathType) ==
    IF pathType = "bare" \/ pathType = "alias" THEN EMPTY
    ELSE IF pathType = "module" THEN getImportExtension(path)
    ELSE realExtensionOf(getImportExtension(path))

getPathType(path) ==
    IF startsWith(path, <<DOT>>) THEN "relative"
    ELSE IF startsWith(path, <<SLASH>>) THEN "absolute"
    ELSE IF startsWith(path, <<"@">>) \/ startsWith(path, <<"~">>) THEN "alias"
    ELSE IF startsWith(path, HttpScheme) \/ startsWith(path, HttpsScheme)
    THEN "module"
    ELSE "bare"

\* /^[@~]/.exec(source)?.[0] for an alias source, undefined (EMPTY) otherwise
pathTypeSymbolOf(source, pathType) ==
    IF pathType = "alias" THEN <<source[1]>> ELSE EMPTY

\* A specifier; alias is EMPTY when the specifier has none, and isType is
\* FALSE when the code leaves it out
Specifier(type, name, alias, isType) ==
    [type |-> type, name |-> name, alias |-> alias, isType |-> isType]

\* The position behind import|export \s+ (type \s+)? when the optional part
\* is taken, 0 when it cannot be taken
afterTypeKeyword(s, q) ==
    IF LiteralAt(s, q, TypeWord) /\ afterSpaces(s, q + 4) > q + 4
    THEN afterSpaces(s, q + 4)
    ELSE 0

\* The capture of \*\s+as\s+(\w+) at position q, EMPTY when it fails
namespaceNameAt(s, q) ==
    IF /\ LiteralAt(s, q, <<"*">>)
       /\ afterSpaces(s, q + 1) > q + 1
       /\ LiteralAt(s, afterSpaces(s, q + 1), AsWord)
       /\ afterSpaces(s, afterSpaces(s, q + 1) + 2) > afterSpaces(s, q + 1) + 2
    THEN SubSeq(s, afterSpaces(s, afterSpaces(s, q + 1) + 2),
                afterWord(s, afterSpaces(s, afterSpaces(s, q + 1) + 2)) - 1)
    ELSE EMPTY

\* /(?:import|export)\s+(?:type\s+)?\*\s+as\s+(\w+)/ tried at position p
namespaceMatchAt(s, p) ==
    IF /\ LiteralAt(s, p, ImportWord) \/ LiteralAt(s, p, ExportWord)
       /\ afterSpaces(s, p + 6) > p + 6
    THEN IF /\ afterTypeKeyword(s, afterSpaces(s, p + 6)) > 0
            /\ Len(namespaceNameAt(s, afterTypeKeyword(s, afterSpaces(s, p + 6)))) > 0
         THEN namespaceNameAt(s, afterTypeKeyword(s, afterSpaces(s, p + 6)))
         ELSE namespaceNameAt(s, afterSpaces(s, p + 6))
    ELSE EMPTY

\* The first capture of a pattern tried at every position from the left
RECURSIVE firstMatch(_, _, _)
firstMatch(matchAt(_, _), s, p) ==
    IF p > Len(s) THEN EMPTY
    ELSE IF Len(matchAt(s, p)) > 0 THEN matchAt(s, p)
    ELSE firstMatch(matchAt, s, p + 1)

namespaceMatch(statement) == firstMatch(namespaceMatchAt, statement, 1)

\* (?:\s*,|\s+from) at position w
defaultFollowerAt(s, w) ==
    \/ LiteralAt(s, afterSpaces(s, w), <<",">>)
    \/ afterSpaces(s, w) > w /\ LiteralAt(s, afterSpaces(s, w), FromWord)

\* The capture of (\w+)(?:\s*,|\s+from) at position q, EMPTY when it fails
defaultNameAt(s, q) ==
    IF q >= 1 /\ afterWord(s, q) > q /\ defaultFollowerAt(s, afterWord(s, q))
    THEN SubSeq(s, q, afterWord(s, q) - 1)
    ELSE EMPTY

\* /import\s+(?:type\s+)?(\w+)(?:\s*,|\s+from)/ tried at position p
defaultMatchAt(s, p) ==
    IF LiteralAt(s, p, ImportWord) /\ afterSpaces(s, p + 6) > p + 6
    THEN IF /\ afterTypeKeyword(s, afterSpaces(s, p + 6)) > 0
            /\ Len(defaultNameAt(s, afterTypeKeyword(s, afterSpaces(s, p + 6)))) > 0
         THEN defaultNameAt(s, afterTypeKeyword(s, afterSpaces(s, p + 6)))
         ELSE defaultNameAt(s, afterSpaces(s, p + 6))
    ELSE EMPTY

defaultMatch(statement) == firstMatch(defaultMatchAt, statement, 1)

\* String.prototype.indexOf(ch) from position i, counted from 1; 0 when absent
RECURSIVE positionOf(_, _, _)
positionOf(s, ch, i) ==
    IF i > Len(s) THEN 0
    ELSE IF s[i] = ch THEN i
    ELSE positionOf(s, ch, i + 1)

\* The capture of /{([^}]*)}/, EMPTY when there is no match
namedMatchBetween(s, open, close) ==
    IF open = 0 \/ close = 0 THEN EMPTY ELSE SubSeq(s, open + 1, close - 1)

namedMatchFrom(s, open) ==
    namedMatchBetween(s, open, IF open = 0 THEN 0 ELSE positionOf(s, "}", open + 1))

namedMatch(statement) == namedMatchFrom(statement, positionOf(statement, "{", 1))

\* split(","), trim, and the empty items filtered out
itemsOf(captured) ==
    SelectSeq([i \in 1..Len(splitBy(captured, <<",">>, 1, EMPTY)) |->
                  trim(splitBy(captured, <<",">>, 1, EMPTY)[i])],
              LAMBDA item : Len(item) > 0)

\* /^type\s+(.+)/ matches the item
typeMatch(item) ==
    /\ LiteralAt(item, 1, TypeWord)
    /\ afterSpaces(item, 5) > 5
    /\ afterSpaces(item, 5) <= Len(item)

actualItemOf(item) ==
    IF typeMatch(item) THEN SubSeq(item, afterSpaces(item, 5), Len(item))
    ELSE item

\* The specifier of one item of a brace block, none for an item left out
renamedSpecifier(parts, isItemType) ==
    IF Len(trim(parts[1])) = 0 THEN <<>>
    ELSE <<Specifier("named", trim(parts[1]), trim(parts[2]), isItemType)>>

specifierOfActualItem(actualItem, isItemType) ==
    IF Len(actualItem) = 0 THEN <<>>
    ELSE IF includes(actualItem, SpacedAs)
    THEN renamedSpecifier(splitBy(actualItem, SpacedAs, 1, EMPTY), isItemType)
    ELSE <<Specifier("named", actualItem, EMPTY, isItemType)>>

specifierOfItem(item, isTypeOnly) ==
    specifierOfActualItem(actualItemOf(item), typeMatch(item) \/ isTypeOnly)

RECURSIVE namedSpecifiers(_, _)
namedSpecifiers(items, isTypeOnly) ==
    IF Len(items) = 0 THEN <<>>
    ELSE specifierOfItem(Head(items), isTypeOnly)
         \o namedSpecifiers(Tail(items), isTypeOnly)

defaultSpecifiers(statement, name, isTypeOnly) ==
    IF Len(name) > 0 /\ ~includes(statement, <<"{">>)
    THEN <<Specifier("default", name, EMPTY, isTypeOnly)>>
    ELSE <<>>

specifiersWith(statement, isTypeOnly, namespaceName) ==
    IF Len(namespaceName) > 0
    THEN <<Specifier("namespace", namespaceName, EMPTY, isTypeOnly)>>
    ELSE defaultSpecifiers(statement, defaultMatch(statement), isTypeOnly)
         \o namedSpecifiers(itemsOf(namedMatch(statement)), isTypeOnly)

extractSpecifiers(statement) ==
    specifiersWith(statement,
                   includes(statement, ImportType) \/ includes(statement, ExportType),
                   namespaceMatch(statement))

\* A source text is a sequence of statements, one on each line.  Which of
\* the five patterns matches a statement as a whole
matchesPattern(pattern, statement) ==
    CASE pattern = "staticImport" ->
             /\ LiteralAt(statement, 1, ImportWord \o <<" ">>)
             /\ includes(statement, <<" ">> \o FromWord \o <<" ">>)
      [] pattern = "dynamicImport" ->
             LiteralAt(statement, 1, ImportWord \o <<"(">>)
      [] pattern = "staticExport" ->
             /\ LiteralAt(statement, 1, ExportWord \o <<" ">>)
             /\ includes(statement, <<" ">> \o FromWord \o <<" ">>)
      [] pattern = "defaultExport" ->
             LiteralAt(statement, 1, ExportWord \o <<" ", "d", "e", "f", "a", "u", "l", "t", " ">>)
      [] pattern = "namedExport" ->
             /\ LiteralAt(statement, 1, ExportWord \o <<" ">>)
             /\ ~includes(statement, <<" ">> \o FromWord \o <<" ">>)
             /\ ~LiteralAt(statement, 1, ExportWord \o <<" ", "d", "e", "f", "a", "u", "l", "t", " ">>)

\* match.index: the offset of the statement at k in the text
RECURSIVE indexOfStatement(_, _)
indexOfStatement(content, k) ==
    IF k = 1 THEN 0
    ELSE indexOfStatement(content, k - 1) + Len(content[k - 1]) + 1

\* [...content.matchAll(pattern)]: the positions in content of the matches
matchAll(content, pattern) ==
    SelectSeq([k \in 1..Len(content) |-> k],
              LAMBDA k : matchesPattern(pattern, content[k]))

\* The capture ['"]([^'"]+)['"] of a statement with a quoted source
sourceBetween(statement, open) ==
    SubSeq(statement, open + 1, positionOf(statement, "\"", open + 1) - 1)

sourceOf(statement) == sourceBetween(statement, positionOf(statement, "\"", 1))

\* The capture (\w+) that ends a named export
RECURSIVE lastWordStart(_, _)
lastWordStart(s, i) ==
    IF i >= 1 /\ IsWordChar(s[i]) THEN lastWordStart(s, i - 1) ELSE i + 1

nameOf(statement) ==
    SubSeq(statement, lastWordStart(statement, Len(statement)), Len(statement))

ImportExportInfo(statement, type, kind, source, pathType, isTypeOnly, specifiers, start) ==
    [statement |-> statement,
     type |-> type,
     kind |-> kind,
     source |-> source,
     pathType |-> pathType,
     pathTypeSymbol |-> IF Len(source) = 0 THEN EMPTY
                        ELSE pathTypeSymbolOf(source, pathType),
     isTypeOnly |-> isTypeOnly,
     specifiers |-> specifiers,
     start |-> start,
     end |-> start + Len(statement),
     importExt |-> getImportExtension(source),
     realFileExt |-> IF Len(source) = 0 THEN EMPTY
                     ELSE getRealFileExtension(source, pathType)]

staticImportInfo(statement, source, start) ==
    ImportExportInfo(statement, "static", "import", source, getPathType(source),
                     includes(statement, ImportType),
                     extractSpecifiers(statement), start)

dynamicImportInfo(statement, source, start) ==
    ImportExportInfo(statement, "dynamic", "import", source,
                     getPathType(source), FALSE, <<>>, start)

staticExportInfo(statement, source, start) ==
    ImportExportInfo(statement, "static", "export", source, getPathType(source),
                     includes(statement, ExportType),
                     extractSpecifiers(statement), start)

defaultExportInfo(statement, start) ==
    ImportExportInfo(statement, "static", "export", EMPTY, "none", FALSE,
                     <<Specifier("default", <<"d", "e", "f", "a", "u", "l", "t">>,
                                 EMPTY, FALSE)>>,
                     start)

namedExportInfo(statement, name, start) ==
    ImportExportInfo(statement, "static", "export", EMPTY, "none",
                     includes(statement, ExportType),
                     <<Specifier("named", name, EMPTY, FALSE)>>, start)

infoOfMatch(pattern, statement, start) ==
    CASE pattern = "staticImport" ->
             staticImportInfo(statement, sourceOf(statement), start)
      [] pattern = "dynamicImport" ->
             dynamicImportInfo(statement, sourceOf(statement), start)
      [] pattern = "staticExport" ->
             staticExportInfo(statement, sourceOf(statement), start)
      [] pattern = "defaultExport" -> defaultExportInfo(statement, start)
      [] pattern = "namedExport" ->
             namedExportInfo(statement, nameOf(statement), start)

\* One loop over the matches of a pattern: the infos it pushes
infosOfMatches(content, pattern, matches, pathTypes) ==
    SelectSeq([m \in 1..Len(matches) |->
                  infoOfMatch(pattern, content[matches[m]],
                              indexOfStatement(content, matches[m]))],
              LAMBDA info : info.pathType = "none" \/ info.pathType \in pathTypes)

scanPattern(content, pattern, pathTypes) ==
    infosOfMatches(content, pattern, matchAll(content, pattern), pathTypes)

scanAll(content, kind, pathTypes) ==
    (IF kind = "import" \/ kind = "all"
     THEN scanPattern(content, "staticImport", pathTypes)
          \o scanPattern(content, "dynamicImport", pathTypes)
     ELSE <<>>)
    \o (IF kind = "export" \/ kind = "all"
        THEN scanPattern(content, "staticExport", pathTypes)
             \o scanPattern(content, "defaultExport", pathTypes)
             \o scanPattern(content, "namedExport", pathTypes)
        ELSE <<>>)

\* `${curr.kind}-${curr.pathType || "none"}`
groupKey(info) == <<info.kind, info.pathType>>

\* The keys of groupedByType in the order Object.values lists them
RECURSIVE groupKeys(_, _)
groupKeys(results, keys) ==
    IF Len(results) = 0 THEN keys
    ELSE groupKeys(Tail(results),
                   IF \E i \in 1..Len(keys) : keys[i] = groupKey(Head(results))
                   THEN keys
                   ELSE Append(keys, groupKey(Head(results))))

groupOf(results, key) == SelectSeq(results, LAMBDA info : groupKey(info) = key)

\* Array.prototype.slice(0, n) for n >= 0
sliceFromStart(xs, n) == SubSeq(xs, 1, IF n > Len(xs) THEN Len(xs) ELSE n)

RECURSIVE flatMapGroups(_, _, _)
flatMapGroups(results, keys, n) ==
    IF Len(keys) = 0 THEN <<>>
    ELSE sliceFromStart(groupOf(results, Head(keys)), n)
         \o flatMapGroups(results, Tail(keys), n)

\* The limit: limitPerType is the empty set when the option is left out
limited(results, limitPerType) ==
    IF limitPerType # {} /\ limitPerType # {0}
    THEN flatMapGroups(results, groupKeys(results, <<>>),
                       CHOOSE n \in limitPerType : TRUE)
    ELSE results

getFileImportsExports(content, options) ==
    limited(scanAll(content, options.kind, options.pathTypes),
            options.limitPerType)

(***************************************************************************)
(* src/deprecated/@dler/mod.ts: the classifier of import paths             *)
(***************************************************************************)
AliasAt == <<"@", "/">>
AliasTilde == <<"~", "/">>
DotSlash == <<".", "/">>
DotDotSlash == <<".", ".", "/">>

\* The position of the first "/" of s at or after position i (positions
\* count from 1), Len(s) + 1 when there is none
firstSlashFrom(s, i) ==
    IF \E k \in i..Len(s) : s[k] = SLASH
    THEN CHOOSE k \in i..Len(s) : s[k] = SLASH /\ \A j \in i..(k - 1) : s[j] # SLASH
    ELSE Len(s) + 1

\* /^(@[^/]+\/[^/]+|[^/]+)/.exec(importPath)[0] on a path that begins with
\* no "/": the scoped alternative is tried first
packageNameMatch(importPath, first, second) ==
    IF /\ importPath[1] = "@"
       /\ first > 2
       /\ first <= Len(importPath)
       /\ second > first + 1
    THEN SubSeq(importPath, 1, second - 1)
    ELSE SubSeq(importPath, 1, first - 1)

\* extractPackageName: null is EMPTY here, a match is never empty
extractPackageName(importPath) ==
    IF \/ importPath = EMPTY
       \/ startsWith(importPath, <<DOT>>)
       \/ startsWith(importPath, <<SLASH>>)
    THEN EMPTY
    ELSE packageNameMatch(importPath, firstSlashFrom(importPath, 1),
                          firstSlashFrom(importPath, firstSlashFrom(importPath, 1) + 1))

\* { type, symbol }; symbol is {} for null and {s} for the string s
PathTypeInfo(type, symbol) == [type |-> type, symbol |-> symbol]

\* /^[A-Za-z]:\\/.test(importPath)
DRIVE_BACKSLASH_RE(importPath) ==
    /\ Len(importPath) >= 3
    /\ IsLetter(importPath[1])
    /\ importPath[2] = COLON
    /\ importPath[3] = BACK_SLASH

determineImportPathType(importPath) ==
    IF startsWith(importPath, AliasAt) THEN PathTypeInfo("alias", {AliasAt})
    ELSE IF startsWith(importPath, AliasTilde) THEN PathTypeInfo("alias", {AliasTilde})
    ELSE IF startsWith(importPath, DotSlash) THEN PathTypeInfo("relative", {DotSlash})
    ELSE IF startsWith(importPath, DotDotSlash)
    THEN PathTypeInfo("relative", {DotDotSlash})
    ELSE IF startsWith(importPath, <<SLASH>>) THEN PathTypeInfo("absolute", {<<SLASH>>})
    ELSE IF DRIVE_BACKSLASH_RE(importPath)
    THEN PathTypeInfo("absolute", {Slice(importPath, 0, 3)})
    ELSE IF startsWith(importPath, HttpScheme) THEN PathTypeInfo("bare", {HttpScheme})
    ELSE IF startsWith(importPath, HttpsScheme) THEN PathTypeInfo("bare", {HttpsScheme})
    ELSE IF extractPackageName(importPath) # EMPTY THEN PathTypeInfo("module", {})
    ELSE PathTypeInfo("bare", {})
(***************************************************************************)
(* src/unnamed/part_005: the win32 flavour of the path functions           *)
(***************************************************************************)
\* `\\\\?\\` and `\\\\?\\UNC\\`
NamespacePrefix == <<BACK_SLASH, BACK_SLASH, "?", BACK_SLASH>>
UncNamespacePrefix == NamespacePrefix \o <<"U", "N", "C", BACK_SLASH>>

\* s.replace(/\//g, BACK_SLASH)
SlashesBackward(s) == [i \in 1..Len(s) |-> IF s[i] = SLASH THEN BACK_SLASH ELSE s[i]]

\* /^[a-zA-Z]:/
DRIVE_PREFIX_RE(s) == Len(s) >= 2 /\ IsLetter(s[1]) /\ s[2] = COLON

\* win32.isAbsolute on a string
win32_isAbsolute(p) ==
    \/ Len(p) >= 3 /\ IsLetter(p[1]) /\ p[2] = COLON /\ IsSep(p[3])
    \/ UNC_REGEX(p)

\* win32.toNamespacedPath on a string, resolved being resolve(p)
win32_namespaced(p, resolved) ==
    IF DRIVE_PREFIX_RE(resolved) THEN NamespacePrefix \o SlashesBackward(resolved)
    ELSE IF UNC_REGEX(resolved)
    THEN UncNamespacePrefix \o SlashesBackward(Substring(resolved, 2))
    ELSE SlashesBackward(p)

win32_toNamespacedPath(p, processCwd) ==
    IF Len(p) = 0 THEN p ELSE win32_namespaced(p, resolve(<<p>>, processCwd))
(***************************************************************************)
(* src/unnamed/part_005: the import regex, replaceAllInString and the      *)
(* rewriting of one file by convertImportsExt.  A text is a sequence of    *)
(* characters, positions count from 1.                                     *)
(***************************************************************************)
NEWLINE == "\n"

\* \s on the characters texts are written with
IsSpace(ch) == ch \in {" ", NEWLINE}

IsQuote(ch) == ch \in {"'", "\""}

\* The first position at or after i that holds no white space
RECURSIVE skipSpaces(_, _)
skipSpaces(text, i) ==
    IF i <= Len(text) /\ IsSpace(text[i]) THEN skipSpaces(text, i + 1) ELSE i

\* The first position at or after i that holds a quote, 0 when there is none
RECURSIVE nextQuote(_, _)
nextQuote(text, i) ==
    IF i > Len(text) THEN 0
    ELSE IF IsQuote(text[i]) THEN i
    ELSE nextQuote(text, i + 1)

\* (['"])([^'"]+<fromExtStr>)(\1) tried at position open: the position of
\* the closing quote, 0 when there is no match
quotedPathEnd(text, open, close, fromExtStr) ==
    IF /\ open <= Len(text)
       /\ IsQuote(text[open])
       /\ close > 0
       /\ text[close] = text[open]
       /\ close - open - 1 > Len(fromExtStr)
       /\ endsWith(SubSeq(text, open + 1, close - 1), fromExtStr)
    THEN close
    ELSE 0

\* \s*(['"])([^'"]+<fromExtStr>)(\1) tried at position j: <<open, close>>,
\* <<0, 0>> when there is no match
quotedPathAt(text, j, fromExtStr) ==
    LET open == skipSpaces(text, j)
        close == quotedPathEnd(text, open, nextQuote(text, open + 1), fromExtStr)
    IN  IF close = 0 THEN <<0, 0>> ELSE <<open, close>>

\* \s+from\s+ and the quoted path, the word from tried at position k
fromClauseAt(text, k, fromExtStr) ==
    IF /\ LiteralAt(text, k, FromWord)
       /\ IsSpace(text[k - 1])
       /\ k + 4 <= Len(text)
       /\ IsSpace(text[k + 4])
    THEN quotedPathAt(text, k + 5, fromExtStr)
    ELSE <<0, 0>>

\* import\s*\(\s* tried at position i
callClauseAt(text, i, fromExtStr) ==
    LET paren == skipSpaces(text, i + 6)
    IN  IF paren <= Len(text) /\ text[paren] = "("
        THEN quotedPathAt(text, paren + 1, fromExtStr)
        ELSE <<0, 0>>

\* The import regex tried at position i: the alternative
\* import\s+(?:[\s\S]*?)\s+from\s+ first, with the shortest lazy part that
\* lets the rest match, then the alternative import\s*\(\s*
importMatchAt(text, i, fromExtStr) ==
    IF ~LiteralAt(text, i, ImportWord) THEN <<0, 0>>
    ELSE LET froms == {k \in (i + 8)..Len(text) :
                          /\ i + 6 <= Len(text)
                          /\ IsSpace(text[i + 6])
                          /\ fromClauseAt(text, k, fromExtStr) # <<0, 0>>}
         IN  IF froms # {}
             THEN fromClauseAt(text, CHOOSE k \in froms : \A j \in froms : k <= j,
                               fromExtStr)
             ELSE callClauseAt(text, i, fromExtStr)

\* Array.from(content.matchAll(importRegex)): the matches from position i
\* on, each one [quote, importPath, open, close]
RECURSIVE importMatches(_, _, _)
importMatches(content, i, fromExtStr) ==
    IF i > Len(content) THEN <<>>
    ELSE LET m == importMatchAt(content, i, fromExtStr)
         IN  IF m = <<0, 0>> THEN importMatches(content, i + 1, fromExtStr)
             ELSE <<[quote |-> content[m[1]],
                     importPath |-> SubSeq(content, m[1] + 1, m[2] - 1),
                     open |-> m[1],
                     close |-> m[2]]>>
                  \o importMatches(content, m[2] + 1, fromExtStr)

\* original.indexOf(searchValue, currentPosition), both counted from 0
RECURSIVE indexOf(_, _, _)
indexOf(original, searchValue, currentPosition) ==
    IF currentPosition + Len(searchValue) > Len(original) THEN -1
    ELSE IF SubSeq(original, currentPosition + 1, currentPosition + Len(searchValue))
                = searchValue
    THEN currentPosition
    ELSE indexOf(original, searchValue, currentPosition + 1)

RECURSIVE replaceAllLoop(_, _, _, _, _)
replaceAllLoop(original, searchValue, replaceValue, currentPosition, result) ==
    IF currentPosition >= Len(original) THEN result
    ELSE LET foundIdx == indexOf(original, searchValue, currentPosition)
         IN  IF foundIdx = -1 THEN result \o Substring(original, currentPosition)
             ELSE replaceAllLoop(original, searchValue, replaceValue,
                      foundIdx + Len(searchValue),
                      result \o Slice(original, currentPosition, foundIdx)
                             \o replaceValue)

replaceAllInString(original, searchValue, replaceValue) ==
    replaceAllLoop(original, searchValue, replaceValue, 0, EMPTY)

\* `.${ext}`, the empty string for "none"
extStr(ext) ==
    CASE ext = "none" -> EMPTY
      [] ext = "js" -> JsExt
      [] ext = "ts" -> TsExt

\* The replacement path convertImportsExt computes for an import path
replacementPath(importPath, extFrom, extTo) ==
    IF extFrom = "none" THEN importPath \o extStr(extTo)
    ELSE IF extTo = "none"
    THEN Slice(importPath, 0, Len(importPath) - Len(extStr(extFrom)))
    ELSE Slice(importPath, 0, Len(importPath) - Len(extStr(extFrom))) \o extStr(extTo)

\* The loop over the matches of one file: [updated, changes]
RECURSIVE convertExtLoop(_, _, _, _)
convertExtLoop(matches, extFrom, extTo, acc) ==
    IF Len(matches) = 0 THEN acc
    ELSE LET match == Head(matches)
             to == replacementPath(match.importPath, extFrom, extTo)
         IN  convertExtLoop(Tail(matches), extFrom, extTo,
                 IF match.importPath = to THEN acc
                 ELSE [updated |->
                           replaceAllInString(acc.updated,
                               <<match.quote>> \o match.importPath \o <<match.quote>>,
                               <<match.quote>> \o to \o <<match.quote>>),
                       changes |->
                           Append(acc.changes, [from |-> match.importPath, to |-> to])])

\* convertImportsExt on the content of one file: [updated, changes]
convertExtOfFile(content, extFrom, extTo) ==
    convertExtLoop(importMatches(content, 1, extStr(extFrom)), extFrom, extTo,
                   [updated |-> content, changes |-> <<>>])
(***************************************************************************)
(* src/unnamed/part_005: stripPathSegments                                 *)
(***************************************************************************)
\* The segments of parsed.dir relative to parsed.root, then parsed.base,
\* the empty ones filtered out
stripInitialSegments(parsed) ==
    LET dirRelativeToRoot ==
            IF Len(parsed.root) > 0 /\ startsWith(parsed.dir, parsed.root)
            THEN Substring(parsed.dir, Len(parsed.root))
            ELSE parsed.dir
        ofDir == IF Len(parsed.dir) > 0 /\ parsed.dir # parsed.root
                 THEN Split(dirRelativeToRoot)
                 ELSE <<>>
        ofBase == IF Len(parsed.base) > 0 THEN <<parsed.base>> ELSE <<>>
    IN  FilterNonEmpty(ofDir \o ofBase)

\* The number of leading segments that are "." or ".."
RECURSIVE leadingRelativeCount(_)
leadingRelativeCount(pathSegments) ==
    IF Len(pathSegments) > 0 /\ Head(pathSegments) \in {<<DOT>>, DOUBLE_DOT}
    THEN 1 + leadingRelativeCount(Tail(pathSegments))
    ELSE 0

\* The segments after the alias segment has been set aside, in
\* [preserved, rest]
stripAliasSegment(pathSegments, alias) ==
    IF Len(alias) > 0 /\ Len(pathSegments) > 0 /\ startsWith(pathSegments[1], alias)
    THEN [preserved |-> <<pathSegments[1]>>, rest |-> Tail(pathSegments)]
    ELSE [preserved |-> <<>>, rest |-> pathSegments]

\* effectiveSegments: the preserved segments, then the body without its
\* first min(count, length) segments
stripEffectiveSegments(aliased, count) ==
    LET relativeCount == leadingRelativeCount(aliased.rest)
        body == SubSeq(aliased.rest, relativeCount + 1, Len(aliased.rest))
        numToStrip == IF count < Len(body) THEN count ELSE Len(body)
    IN  aliased.preserved \o SubSeq(aliased.rest, 1, relativeCount)
            \o SubSeq(body, numToStrip + 1, Len(body))

stripResult(pathRoot, effectiveSegments) ==
    IF Len(effectiveSegments) = 0
    THEN normalize(IF Len(pathRoot) > 0 THEN pathRoot ELSE <<DOT>>)
    ELSE IF Len(pathRoot) > 0 THEN join(<<pathRoot>> \o effectiveSegments)
    ELSE join(effectiveSegments)

\* stripPathSegments(path, count, alias) on a string
stripPathSegments(path, count, alias) ==
    IF Len(path) = 0 \/ count <= 0 THEN path
    ELSE stripResult(parse(normalizeWindowsPath(path)).root,
             stripEffectiveSegments(
                 stripAliasSegment(
                     stripInitialSegments(parse(normalizeWindowsPath(path))), alias),
                 count))
(***************************************************************************)
(* src/deprecated/@dler/mod.ts: STATIC_IMPORT_REGEX, DYNAMIC_IMPORT_REGEX  *)
(* and the overwrites of transformImportPathsLogic on the text of a file.  *)
(* A match is [index, open, close]: the position where it starts and the   *)
(* positions of its two quotes, counted from 1; it ends with close for a   *)
(* static match.  Indexes of the code count from 0.                        *)
(***************************************************************************)
NoMatch == [index |-> 0, open |-> 0, close |-> 0, last |-> 0]

\* The position behind the longest run of [^\s,] that starts at i
RECURSIVE afterName(_, _)
afterName(text, i) ==
    IF i <= Len(text) /\ ~IsSpace(text[i]) /\ text[i] # "," THEN afterName(text, i + 1)
    ELSE i

\* The first position at or after i that holds ch, 0 when there is none
RECURSIVE nextChar(_, _, _)
nextChar(text, i, ch) ==
    IF i > Len(text) THEN 0
    ELSE IF text[i] = ch THEN i
    ELSE nextChar(text, i + 1, ch)

\* \s+as\s+[^\s,]+ tried at position i: the position behind it, 0 when it fails
asNameEnd(text, i) ==
    LET word == skipSpaces(text, i)
        name == skipSpaces(text, word + 2)
    IN  IF /\ word > i
           /\ LiteralAt(text, word, AsWord)
           /\ name > word + 2
           /\ afterName(text, name) > name
        THEN afterName(text, name)
        ELSE 0

\* \{[^}]*\} | \*\s+as\s+[^,\s]+ | [^\s,]+(?:\s+as\s+[^\s,]+)? tried at
\* position i, the alternatives in their order: the position behind the
\* item, 0 when none matches
itemEnd(text, i) ==
    IF i > Len(text) THEN 0
    ELSE IF text[i] = "{" /\ nextChar(text, i + 1, "}") > 0
    THEN nextChar(text, i + 1, "}") + 1
    ELSE IF text[i] = "*" /\ asNameEnd(text, i + 1) > 0
    THEN asNameEnd(text, i + 1)
    ELSE IF afterName(text, i) = i THEN 0
    ELSE IF asNameEnd(text, afterName(text, i)) > 0
    THEN asNameEnd(text, afterName(text, i))
    ELSE afterName(text, i)

\* (?:\s*,\s*item)* tried at position i: the position behind the last item
RECURSIVE moreItemsEnd(_, _)
moreItemsEnd(text, i) ==
    LET comma == skipSpaces(text, i)
    IN  IF /\ comma <= Len(text)
           /\ text[comma] = ","
           /\ itemEnd(text, skipSpaces(text, comma + 1)) > 0
        THEN moreItemsEnd(text, itemEnd(text, skipSpaces(text, comma + 1)))
        ELSE i

\* (['"])((?:(?!\2).|\\\2)*)\2 tried at position open: the position of the
\* closing quote, the first quote of the same kind, with no line break before
\* it; 0 when there is no match
RECURSIVE closingQuote(_, _, _)
closingQuote(text, quote, i) ==
    IF i > Len(text) \/ text[i] = NEWLINE THEN 0
    ELSE IF text[i] = quote THEN i
    ELSE closingQuote(text, quote, i + 1)

quotedAt(text, index, open) ==
    IF open <= Len(text) /\ IsQuote(text[open])
          /\ closingQuote(text, text[open], open + 1) > 0
    THEN [index |-> index, open |-> open,
          close |-> closingQuote(text, text[open], open + 1),
          last |-> closingQuote(text, text[open], open + 1)]
    ELSE NoMatch

\* [\s\n]*from\s+ and the quoted path tried behind the items that end at i
fromAt(text, index, i) ==
    LET word == skipSpaces(text, i)
    IN  IF /\ LiteralAt(text, word, FromWord)
           /\ skipSpaces(text, word + 4) > word + 4
        THEN quotedAt(text, index, skipSpaces(text, word + 4))
        ELSE NoMatch

\* [\s\n]*(?:items[\s\n]*from\s+)?(['"])(path)\2 tried at position i: the
\* group with the items first, then the quoted path alone
restAt(text, index, i) ==
    LET start == skipSpaces(text, i)
        withItems == IF itemEnd(text, start) = 0 THEN NoMatch
                     ELSE fromAt(text, index, moreItemsEnd(text, itemEnd(text, start)))
    IN  IF withItems # NoMatch THEN withItems
        ELSE quotedAt(text, index, start)

\* STATIC_IMPORT_REGEX tried at position i: (import|export), then
\* (?:\s+type)? taken first and left out when the rest fails with it
staticMatchAt(text, i) ==
    IF ~(LiteralAt(text, i, ImportWord) \/ LiteralAt(text, i, ExportWord)) THEN NoMatch
    ELSE LET word == skipSpaces(text, i + 6)
             withType == IF word > i + 6 /\ LiteralAt(text, word, TypeWord)
                         THEN restAt(text, i, word + 4)
                         ELSE NoMatch
         IN  IF withType # NoMatch THEN withType
             ELSE restAt(text, i, i + 6)

\* DYNAMIC_IMPORT_REGEX tried at position i:
\* import\s*\(\s*(['"])([^'"]+)\1\s*\)
dynamicMatchAt(text, i) ==
    LET paren == skipSpaces(text, i + 6)
        open == skipSpaces(text, paren + 1)
        close == nextQuote(text, open + 1)
        last == skipSpaces(text, close + 1)
    IN  IF /\ LiteralAt(text, i, ImportWord)
           /\ paren <= Len(text) /\ text[paren] = "("
           /\ open <= Len(text) /\ IsQuote(text[open])
           /\ close > open + 1 /\ text[close] = text[open]
           /\ last <= Len(text) /\ text[last] = ")"
        THEN [index |-> i, open |-> open, close |-> close, last |-> last]
        ELSE NoMatch

\* content.matchAll(regex): the matches from position i on, from the left,
\* the search going on behind each match
RECURSIVE matchAllFrom(_, _, _)
matchAllFrom(matchAt(_, _), content, i) ==
    IF i > Len(content) THEN <<>>
    ELSE IF matchAt(content, i) = NoMatch THEN matchAllFrom(matchAt, content, i + 1)
    ELSE <<matchAt(content, i)>>
         \o matchAllFrom(matchAt, content, matchAt(content, i).last + 1)

\* String.prototype.lastIndexOf: fullMatch.lastIndexOf(importPath)
lastIndexOf(s, sub) ==
    LET hits == {k \in 0..(Len(s) - Len(sub)) : SubSeq(s, k + 1, k + Len(sub)) = sub}
    IN  IF hits = {} THEN -1
        ELSE CHOOSE k \in hits : \A j \in hits : j <= k

\* s.overwrite(start, end, content)
Overwrite(start, end, content) == [start |-> start, end |-> end, content |-> content]

\* The body of the loop over the static matches for one match, the
\* bare -> dynamic case aside: the overwrite it makes, if any
staticOverwrite(match, importPath, fullMatch, convertedPath) ==
    LET pathStartIndex == (match.index - 1) + lastIndexOf(fullMatch, importPath) - 1
        pathEndIndex == pathStartIndex + Len(importPath) + 2
    IN  IF Len(importPath) = 0 \/ convertedPath = importPath THEN <<>>
        ELSE <<Overwrite(pathStartIndex + 1, pathEndIndex - 1, convertedPath)>>

\* The body of the loop over the dynamic matches for one match
dynamicOverwrite(match, quoteChar, importPath, fullMatch, convertedPath) ==
    LET pathStartIndex ==
            (match.index - 1)
            + indexOf(fullMatch, <<quoteChar>> \o importPath \o <<quoteChar>>, 0) + 1
        pathEndIndex == pathStartIndex + Len(importPath)
    IN  IF Len(importPath) = 0 \/ convertedPath = importPath THEN <<>>
        ELSE <<Overwrite(pathStartIndex, pathEndIndex, convertedPath)>>

RECURSIVE staticOverwrites(_, _, _, _, _)
staticOverwrites(content, matches, fromType, toType, converterOpts) ==
    IF Len(matches) = 0 THEN <<>>
    ELSE LET match == Head(matches)
             importPath == SubSeq(content, match.open + 1, match.close - 1)
         IN  staticOverwrite(match, importPath,
                             SubSeq(content, match.index, match.last),
                             convertSingleImportPath(fromType, toType, importPath,
                                                     converterOpts))
             \o staticOverwrites(content, Tail(matches), fromType, toType, converterOpts)

RECURSIVE dynamicOverwrites(_, _, _, _, _)
dynamicOverwrites(content, matches, fromType, toType, converterOpts) ==
    IF Len(matches) = 0 THEN <<>>
    ELSE LET match == Head(matches)
             importPath == SubSeq(content, match.open + 1, match.close - 1)
         IN  dynamicOverwrite(match, content[match.open], importPath,
                              SubSeq(content, match.index, match.last),
                              convertSingleImportPath(fromType, toType, importPath,
                                                      converterOpts))
             \o dynamicOverwrites(content, Tail(matches), fromType, toType, converterOpts)

\* The overwrites transformImportPathsLogic asks of the MagicString, in the
\* order of the calls: the static matches, then the dynamic ones
overwritesOf(content, options) ==
    LET converterOpts ==
            [sourceFile |-> options.filePath,
             baseDir |-> options.baseDir,
             aliasPrefix |-> options.aliasPrefix,
             strip |-> options.strip]
    IN  staticOverwrites(content, matchAllFrom(staticMatchAt, content, 1),
                         options.fromType, options.toType, converterOpts)
        \o dynamicOverwrites(content, matchAllFrom(dynamicMatchAt, content, 1),
                             options.fromType, options.toType, converterOpts)

\* MagicString throws when an overwrite touches characters that an earlier
\* one has replaced
overwritesCollide(overwrites) ==
    \E i, j \in 1..Len(overwrites) :
        /\ i < j
        /\ overwrites[i].start < overwrites[j].end
        /\ overwrites[j].start < overwrites[i].end

\* s.toString(): the original with every range replaced, from index at on
RECURSIVE magicToString(_, _, _)
magicToString(original, overwrites, at) ==
    IF at >= Len(original) THEN EMPTY
    ELSE LET here == {i \in 1..Len(overwrites) : overwrites[i].start = at}
         IN  IF here = {} THEN <<original[at + 1]>> \o magicToString(original, overwrites, at + 1)
             ELSE overwrites[CHOOSE i \in here : TRUE].content
                  \o magicToString(original, overwrites,
                                   overwrites[CHOOSE i \in here : TRUE].end)

\* transformImportPathsLogic and s.toString() of processFileContent:
\* [overwrites, threw, changesMade, newContent]
transformedText(content, overwrites) ==
    [overwrites |-> overwrites,
     threw |-> overwritesCollide(overwrites),
     changesMade |-> Len(overwrites) > 0,
     newContent |-> IF overwritesCollide(overwrites) THEN content
                    ELSE magicToString(content, overwrites, 0)]

(***************************************************************************)
(* Inputs.  A path input is a concatenation of at most MaxTokens tokens;   *)
(* an argument list has at most MaxArgs entries.                           *)
(***************************************************************************)
MaxTokens == 4
MaxArgs == 3
MaxRelTokens == 2

RECURSIVE Paths(_, _)
Paths(tokens, n) ==
    IF n = 0 THEN {EMPTY}
    ELSE LET shorter == Paths(tokens, n - 1)
         IN  shorter \cup {p \o t : p \in shorter, t \in tokens}

RECURSIVE ArgLists(_, _)
ArgLists(paths, n) ==
    IF n = 0 THEN {<<>>}
    ELSE LET shorter == ArgLists(paths, n - 1)
         IN  shorter \cup {Append(xs, p) : xs \in shorter, p \in paths}

NormalizeTokens ==
    {<<SLASH>>, <<BACK_SLASH>>, <<DOT>>, DOUBLE_DOT, <<"a">>, <<"b">>,
     <<"c", COLON>>, <<"C", COLON>>}

ArgPaths ==
    {EMPTY, <<SLASH>>, <<"a">>, <<DOT>>, DOUBLE_DOT,
     <<SLASH, "a">>, <<"a", SLASH>>, <<DOT, DOT, SLASH, "b">>,
     <<"C", COLON, SLASH>>, <<"c", COLON, BACK_SLASH, "a">>,
     <<SLASH, SLASH, "s", SLASH, "a">>, <<"C", COLON>>}

RelTokens ==
    {<<SLASH>>, <<SLASH, "a">>, <<SLASH, "b">>, <<SLASH, DOT, DOT>>,
     <<"a">>, <<"C", COLON>>, <<SLASH, "c", COLON>>, <<"B", COLON>>}

WorkingDirs == {<<SLASH, "w">>, <<"C", COLON, BACK_SLASH, "w">>}

(***************************************************************************)
(* normalize, called on a path and again on its own result                 *)
(***************************************************************************)
InitNormalize ==
    /\ pc = "normalize"
    /\ args \in {<<p>> : p \in Paths(NormalizeTokens, MaxTokens)}
    /\ out = <<>>
    /\ procCwd = <<SLASH, "w">>
    /\ NoRun

CallNormalize ==
    /\ pc = "normalize"
    /\ out' = <<normalize(args[1])>>
    /\ pc' = "renormalize"
    /\ UNCHANGED <<args, procCwd, runVars>>

CallNormalizeAgain ==
    /\ pc = "renormalize"
    /\ out' = Append(out, normalize(out[1]))
    /\ pc' = "done"
    /\ UNCHANGED <<args, procCwd, runVars>>

NextNormalize == CallNormalize \/ CallNormalizeAgain

SpecNormalize == InitNormalize /\ [][NextNormalize]_vars

(***************************************************************************)
(* join, called on a list of segments                                      *)
(***************************************************************************)
InitJoin ==
    /\ pc = "join"
    /\ args \in ArgLists(ArgPaths, MaxArgs)
    /\ out = <<>>
    /\ procCwd = <<SLASH, "w">>
    /\ NoRun

CallJoin ==
    /\ pc = "join"
    /\ out' = <<join(args)>>
    /\ pc' = "done"
    /\ UNCHANGED <<args, procCwd, runVars>>

NextJoin == CallJoin

SpecJoin == InitJoin /\ [][NextJoin]_vars

(***************************************************************************)
(* resolve, called on a list of segments and again on the part of the      *)
(* list that starts at its rightmost absolute segment                      *)
(***************************************************************************)
\* The arguments from the rightmost absolute one on; with no absolute
\* argument, the working directory followed by all the arguments.
Anchored(xs, wd) ==
    LET absAt == {i \in 1..Len(xs) : IS_ABSOLUTE_RE(SlashesForward(xs[i]))}
    IN  IF absAt = {} THEN <<wd>> \o xs
        ELSE SubSeq(xs, CHOOSE i \in absAt : \A j \in absAt : j <= i, Len(xs))

InitResolve ==
    /\ pc = "resolve"
    /\ args \in ArgLists(ArgPaths, MaxArgs)
    /\ out = <<>>
    /\ procCwd \in WorkingDirs
    /\ NoRun

CallResolve ==
    /\ pc = "resolve"
    /\ out' = <<resolve(args, procCwd)>>
    /\ pc' = "anchored"
    /\ UNCHANGED <<args, procCwd, runVars>>

CallResolveAnchored ==
    /\ pc = "anchored"
    /\ out' = Append(out, resolve(Anchored(args, procCwd), procCwd))
    /\ pc' = "done"
    /\ UNCHANGED <<args, procCwd, runVars>>

NextResolve == CallResolve \/ CallResolveAnchored

SpecResolve == InitResolve /\ [][NextResolve]_vars

(***************************************************************************)
(* relative(from, to), then resolve(from, relative(from, to)) and          *)
(* resolve(to)                                                             *)
(***************************************************************************)
InitRelative ==
    /\ pc = "relative"
    /\ args \in {<<from, to>> : from \in Paths(RelTokens, MaxRelTokens),
                                to \in Paths(RelTokens, MaxRelTokens)}
    /\ out = <<>>
    /\ procCwd \in WorkingDirs
    /\ NoRun

CallRelative ==
    /\ pc = "relative"
    /\ out' = <<relative(args[1], args[2], procCwd)>>
    /\ pc' = "back"
    /\ UNCHANGED <<args, procCwd, runVars>>

CallResolveBack ==
    /\ pc = "back"
    /\ out' = out \o <<resolve(<<args[1], out[1]>>, procCwd),
                       resolve(<<args[2]>>, procCwd)>>
    /\ pc' = "done"
    /\ UNCHANGED <<args, procCwd, runVars>>

NextRelative == CallRelative \/ CallResolveBack

SpecRelative == InitRelative /\ [][NextRelative]_vars

(***************************************************************************)
(* Vocabulary of the properties                                            *)
(***************************************************************************)
\* p starts with the POSIX root: one separator, not two
IsPosixRooted(p) ==
    LET f == SlashesForward(p)
    IN  Len(f) >= 1 /\ f[1] = SLASH /\ (Len(f) >= 2 => f[2] # SLASH)

\* p starts with a drive root: X:/ or X:\
IsDriveRooted(p) ==
    LET f == SlashesForward(p)
    IN  Len(f) >= 3 /\ IsLetter(f[1]) /\ f[2] = COLON /\ f[3] = SLASH

\* p starts with a UNC root: //server
IsUncRooted(p) ==
    LET f == SlashesForward(p)
    IN  Len(f) >= 3 /\ f[1] = SLASH /\ f[2] = SLASH /\ f[3] \notin {SLASH, DOT}

\* The root of an absolute path: "/", "X:/" with X upper-cased, or "//server"
RootOf(p) ==
    LET f == SlashesForward(p)
    IN  IF IsDriveRooted(p) THEN <<UpperChar(f[1]), COLON, SLASH>>
        ELSE IF IsUncRooted(p) THEN <<SLASH, SLASH>> \o Split(Substring(f, 2))[1]
        ELSE <<SLASH>>

\* The segments of a path: its maximal runs of characters other than "/"
SegmentsOf(s) ==
    LET starts == {i \in 1..Len(s) : s[i] # SLASH /\ (i = 1 \/ s[i - 1] = SLASH)}
        EndOf(i) == CHOOSE j \in i..Len(s) :
                        /\ \A k \in i..j : s[k] # SLASH
                        /\ j = Len(s) \/ s[j + 1] = SLASH
        Nth(k) == CHOOSE i \in starts : Cardinality({j \in starts : j < i}) = k - 1
    IN  [k \in 1..Cardinality(starts) |-> SubSeq(s, Nth(k), EndOf(Nth(k)))]

HasDotDotSegment(s) == \E i \in 1..Len(SegmentsOf(s)) : SegmentsOf(s)[i] = DOUBLE_DOT

\* An absolute path in canonical form: a bare root, or a root followed by
\* segments none of which is empty, "." or "..", with no trailing slash.
IsCanonicalAbsolute(r) ==
    LET body == IF IsDriveRooted(r) THEN Substring(r, 3)
                ELSE IF startsWith(r, <<SLASH>>) THEN Substring(r, 1) ELSE r
        pieces == Split(body)
    IN  /\ IsDriveRooted(r) \/ startsWith(r, <<SLASH>>)
        /\ \/ Len(body) = 0
           \/ \A i \in 1..Len(pieces) :
                  pieces[i] \notin {EMPTY, <<DOT>>, DOUBLE_DOT}

\* Both paths start with a drive letter segment, and the letters differ
DifferentDrives(a, b) ==
    LET sa == SegmentsOf(a)
        sb == SegmentsOf(b)
    IN  /\ Len(sa) > 0 /\ Len(sb) > 0
        /\ Len(sa[1]) = 2 /\ IsLetter(sa[1][1]) /\ sa[1][2] = COLON
        /\ Len(sb[1]) = 2 /\ IsLetter(sb[1][1]) /\ sb[1][2] = COLON
        /\ UpperChar(sa[1][1]) # UpperChar(sb[1][1])

\* The length of the longest common leading run of two sequences
CommonRun(xs, ys) ==
    LET agree == {k \in 0..Len(xs) : k <= Len(ys) /\ SubSeq(xs, 1, k) = SubSeq(ys, 1, k)}
    IN  CHOOSE k \in agree : \A j \in agree : j <= k

\* One ".." per segment of from after the common run, then the segments of
\* to after the common run, joined by "/"
UpsThenDowns(a, b) ==
    LET sa == SegmentsOf(a)
        sb == SegmentsOf(b)
        k == CommonRun(sa, sb)
    IN  JoinSlash([i \in 1..(Len(sa) - k) |-> DOUBLE_DOT] \o SubSeq(sb, k + 1, Len(sb)))

\* The non-empty segments put together with one "/" between neighbours, a
\* doubled separator at a seam collapsed
RECURSIVE SeamConcat(_, _)
SeamConcat(segments, acc) ==
    IF Len(segments) = 0 THEN acc
    ELSE LET seg == Head(segments)
             trailing == endsWith(acc, <<SLASH>>)
             leading == startsWith(seg, <<SLASH>>)
         IN  SeamConcat(Tail(segments),
                 IF Len(seg) = 0 THEN acc
                 ELSE IF Len(acc) = 0 THEN seg
                 ELSE IF trailing /\ leading THEN acc \o Tail(seg)
                 ELSE IF trailing \/ leading THEN acc \o seg
                 ELSE acc \o <<SLASH>> \o seg)

(***************************************************************************)
(* Properties of the path algebra                                          *)
(***************************************************************************)
\* C1: normalize is idempotent: normalize applied to a result of normalize
\* returns that result unchanged.
C1_NormalizeIdempotent ==
    pc = "done" => out[2] = out[1]

\* C7: for an absolute path p, normalize(p) starts with the root of p (the
\* drive letter upper-cased and followed by "/"), a POSIX-rooted p does not
\* become a UNC path, and the result has no ".." segment.
C7_NormalizeKeepsRoot ==
    (pc \in {"renormalize", "done"}
        /\ (IsPosixRooted(args[1]) \/ IsDriveRooted(args[1]) \/ IsUncRooted(args[1])))
    => /\ startsWith(out[1], RootOf(args[1]))
       /\ IsPosixRooted(args[1]) => IsPosixRooted(out[1])
       /\ ~HasDotDotSegment(out[1])

\* C8: join(s1, ..., sn) is normalize of the non-empty segments put together
\* with exactly one "/" at each seam, and "." when there is nothing to join.
C8_JoinIsNormalizeOfSeamConcat ==
    pc = "done" =>
        out[1] = IF Len(SeamConcat(args, EMPTY)) = 0 THEN <<DOT>>
                 ELSE normalize(SeamConcat(args, EMPTY))

C10_RelativeUpsThenDowns ==
    pc \in {"back", "done"} =>
        LET resolvedFrom == resolve(<<args[1]>>, procCwd)
            resolvedTo == resolve(<<args[2]>>, procCwd)
        IN  out[1] = IF resolvedFrom = resolvedTo THEN EMPTY
                     ELSE IF DifferentDrives(resolvedFrom, resolvedTo) THEN resolvedTo
                     ELSE UpsThenDowns(resolvedFrom, resolvedTo)

\* C10 witness: relative has returned a path that climbs out of from and
\* descends into to below a common directory.
C10_Witness ==
    /\ pc = "done"
    /\ args = <<<<SLASH, "a", SLASH, "b">>, <<SLASH, "a", SLASH, "a">>>>
    /\ out[1] = <<DOT, DOT, SLASH, "a">>

\* C2: for an absolute to (POSIX-rooted or drive-rooted),
\* resolve(from, relative(from, to)) equals resolve(to).
C2_RelativeResolveRoundTrip ==
    (pc = "done" /\ (IsPosixRooted(args[2]) \/ IsDriveRooted(args[2])))
    => out[2] = out[3]

(***************************************************************************)
(* A relative import converted to an alias import and back, for one file,  *)
(* as two runs of convertImportPaths over that file would convert it       *)
(***************************************************************************)
MaxImportTokens == 3

ConvertBaseDirs ==
    {<<SLASH, "s">>, <<SLASH, "p", SLASH, "s">>,
     <<SLASH, "q", SLASH, "p", SLASH, "s">>}

SourceFileNames ==
    {<<"f", DOT, "t", "s">>, <<"d", SLASH, "f", DOT, "t", "s">>,
     <<"e", SLASH, "f", DOT, "t", "s">>}

ImportTokens ==
    {<<DOT, SLASH>>, <<DOT, DOT, SLASH>>, <<"d", SLASH>>, <<"e", SLASH>>, <<"x">>}

AliasPrefixes == {<<"~", SLASH>>, <<"@", SLASH>>}

\* The segments of the directory a file is in
ParentSegments(file) ==
    SubSeq(SegmentsOf(file), 1, Len(SegmentsOf(file)) - 1)

\* The segments of the place reached from a directory along a relative path
RECURSIVE Descend(_, _)
Descend(dir, steps) ==
    IF Len(steps) = 0 THEN dir
    ELSE LET step == Head(steps)
         IN  Descend(IF step = <<DOT>> THEN dir
                     ELSE IF step = DOUBLE_DOT THEN SubSeq(dir, 1, Len(dir) - 1)
                     ELSE Append(dir, step),
                     Tail(steps))

\* target lies below base
IsInside(base, target) ==
    Len(target) > Len(base) /\ SubSeq(target, 1, Len(base)) = base

\* The relative import that leads from a directory to a target in the
\* fewest steps: "./" and the way down, or one "../" per directory left and
\* the way down
CanonicalRelative(dir, target) ==
    LET k == CommonRun(dir, target)
        ups == [i \in 1..(Len(dir) - k) |-> DOUBLE_DOT]
        downs == SubSeq(target, k + 1, Len(target))
    IN  JoinSlash((IF Len(ups) = 0 THEN <<<<DOT>>>> ELSE ups) \o downs)

\* r is a relative import of sourceFile in canonical form whose target lies
\* inside baseDir
IsCanonicalImport(r, sourceFile, baseDir) ==
    LET dir == ParentSegments(sourceFile)
        target == Descend(dir, SegmentsOf(r))
    IN  /\ startsWith(r, <<DOT, SLASH>>) \/ startsWith(r, <<DOT, DOT, SLASH>>)
        /\ IsInside(SegmentsOf(baseDir), target)
        /\ r = CanonicalRelative(dir, target)

\* The options the converters get for a file in a run that converts from
\* fromType, no strip option given
converterOptions(fromType) ==
    [sourceFile |-> args.sourceFile,
     baseDir |-> args.baseDir,
     aliasPrefix |-> args.aliasPrefix,
     strip |-> deriveStrip(fromType, args.baseDir, <<>>)]

InitConvert ==
    /\ pc = "toAlias"
    /\ args \in {[baseDir |-> b, sourceFile |-> b \o <<SLASH>> \o f,
                  importPath |-> r, aliasPrefix |-> a] :
                     b \in ConvertBaseDirs, f \in SourceFileNames,
                     r \in Paths(ImportTokens, MaxImportTokens),
                     a \in AliasPrefixes}
    /\ IsCanonicalImport(args.importPath, args.sourceFile, args.baseDir)
    /\ out = <<>>
    /\ procCwd = <<SLASH, "w">>
    /\ NoRun

ConvertToAlias ==
    /\ pc = "toAlias"
    /\ out' = <<convertSingleImportPath("relative", "alias", args.importPath,
                                        converterOptions("relative"))>>
    /\ pc' = "toRelative"
    /\ UNCHANGED <<args, procCwd, runVars>>

ConvertBackToRelative ==
    /\ pc = "toRelative"
    /\ out' = Append(out, convertSingleImportPath("alias", "relative", out[1],
                                                  converterOptions("alias")))
    /\ pc' = "done"
    /\ UNCHANGED <<args, procCwd, runVars>>

NextConvert == ConvertToAlias \/ ConvertBackToRelative

SpecConvert == InitConvert /\ [][NextConvert]_vars

(***************************************************************************)
(* The file system of a run of convertImportPaths.  The content of a file  *)
(* is the list of the sources of its import and export statements, in the  *)
(* order the statements stand in the file.                                 *)
(***************************************************************************)
DotTs == <<DOT, "t", "s">>
ProjectDir == <<SLASH, "p">>
SourceDir == ProjectDir \o <<SLASH, "s">>
NestedDir == SourceDir \o <<SLASH, "d">>
NodeModulesName == <<"n", "o", "d", "e", "_", "m", "o", "d", "u", "l", "e", "s">>
NodeModulesDir == SourceDir \o <<SLASH>> \o NodeModulesName
HiddenDir == SourceDir \o <<SLASH, DOT, "g">>
FileA == SourceDir \o <<SLASH, "a">> \o DotTs
FileB == SourceDir \o <<SLASH, "b">> \o DotTs
FileC == NestedDir \o <<SLASH, "c">> \o DotTs
FileN == SourceDir \o <<SLASH, "n", DOT, "m", "d">>
FileM == NodeModulesDir \o <<SLASH, "m">> \o DotTs
FileG == HiddenDir \o <<SLASH, "g">> \o DotTs
MissingDir == ProjectDir \o <<SLASH, "x">>

Directories ==
    {<<SLASH>>, ProjectDir, SourceDir, NestedDir, NodeModulesDir, HiddenDir}

Files == {FileA, FileB, FileC, FileN, FileM, FileG}

Lodash == <<"l", "o", "d", "a", "s", "h">>

ContentsOfA ==
    {<<<<DOT, SLASH, "b">>>>,
     <<Lodash>>,
     <<<<"~", SLASH, "d", SLASH, "c">>>>,
     <<<<DOT, SLASH, "d", SLASH, "c">>, Lodash>>,
     <<>>}

ContentsOfB == {<<<<SLASH, "x">>>>, <<<<DOT, SLASH, "a">>>>}

ContentsOfC == {<<<<DOT, DOT, SLASH, "a">>>>, <<<<"~", SLASH, "a">>>>}

Disks ==
    {[f \in Files |->
         CASE f = FileA -> a
           [] f = FileB -> b
           [] f = FileC -> c
           [] OTHER -> <<<<DOT, SLASH, "a">>>>] :
        a \in ContentsOfA, b \in ContentsOfB, c \in ContentsOfC}

RawBaseDirs == {EMPTY, <<"s">>, FileA, MissingDir}

TypePairs ==
    {<<"relative", "absolute">>, <<"relative", "alias">>,
     <<"alias", "relative">>, <<"alias", "alias">>}

\* The options of a run; an aliasPrefix that is not given is EMPTY.  The
\* options strip, fileExtensions and generateSourceMap are left out.
RunOptions ==
    {[baseDir |-> b, fromType |-> t[1], toType |-> t[2], aliasPrefix |-> a,
      distJsrDryRun |-> d] :
        b \in RawBaseDirs, t \in TypePairs,
        a \in {EMPTY, <<"~", SLASH>>}, d \in BOOLEAN}

\* The calls of the file system that fail: at most one path is faulty
Faults ==
    {[readFile |-> {}, writeFile |-> {}, readdir |-> {}]}
    \cup {[readFile |-> {f}, writeFile |-> {}, readdir |-> {}] :
             f \in {FileA, FileB, FileC}}
    \cup {[readFile |-> {}, writeFile |-> {f}, readdir |-> {}] :
             f \in {FileA, FileB, FileC}}
    \cup {[readFile |-> {}, writeFile |-> {}, readdir |-> {NestedDir}]}

\* stats.isDirectory(), or the ENOENT of stat
StatKind(p) ==
    IF p \in Directories THEN "directory"
    ELSE IF p \in Files THEN "file"
    ELSE "missing"

\* readdir(dirPath, { withFileTypes: true })
readdir(dirPath) ==
    CASE dirPath = SourceDir ->
           <<[name |-> <<"a">> \o DotTs, isFile |-> TRUE],
             [name |-> <<"b">> \o DotTs, isFile |-> TRUE],
             [name |-> <<"d">>, isFile |-> FALSE],
             [name |-> <<"n", DOT, "m", "d">>, isFile |-> TRUE],
             [name |-> NodeModulesName, isFile |-> FALSE],
             [name |-> <<DOT, "g">>, isFile |-> FALSE]>>
      [] dirPath = NestedDir -> <<[name |-> <<"c">> \o DotTs, isFile |-> TRUE]>>
      [] dirPath = NodeModulesDir -> <<[name |-> <<"m">> \o DotTs, isFile |-> TRUE]>>
      [] dirPath = HiddenDir -> <<[name |-> <<"g">> \o DotTs, isFile |-> TRUE]>>
      [] OTHER -> <<>>

(***************************************************************************)
(* convertImportPaths: validation, traversal, one file at a time           *)
(***************************************************************************)
CONCURRENCY_DEFAULT == 5

DEFAULT_FILE_EXTENSIONS ==
    {<<DOT, "t", "s">>, <<DOT, "t", "s", "x">>, <<DOT, "j", "s">>,
     <<DOT, "j", "s", "x">>}

BaseDirRequired == "baseDir option is required."
AliasPrefixRequired == "aliasPrefix is required for alias path conversions"
BaseDirMissing == "Specified baseDir does not exist"
BaseDirNotDirectory == "Specified baseDir is not a directory"

\* The error of the block around stat(baseDir), "none" for a directory
statError(kind) ==
    IF kind = "missing" THEN BaseDirMissing
    ELSE IF kind # "directory" THEN BaseDirNotDirectory
    ELSE "none"

\* configurationError with the test of aliasPrefix left out
configurationErrorNoAliasCheck(options) ==
    IF Len(options.baseDir) = 0 THEN BaseDirRequired
    ELSE statError(StatKind(path_resolve(<<CWD, options.baseDir>>)))

\* The error convertImportPaths throws while it validates its options,
\* "none" when it throws none
configurationError(options) ==
    IF Len(options.baseDir) = 0 THEN BaseDirRequired
    ELSE IF /\ options.fromType = "alias" \/ options.toType = "alias"
            /\ Len(options.aliasPrefix) = 0
         THEN AliasPrefixRequired
    ELSE statError(StatKind(path_resolve(<<CWD, options.baseDir>>)))

\* transformImportPathsLogic falling back to the relative form when the pair
\* fromType:toType has no converter
transformImportPathsLogicWithFallback(content, options) ==
    [k \in 1..Len(content) |->
        IF Len(content[k]) = 0 THEN content[k]
        ELSE convertSingleImportPath(options.fromType,
                 IF HasConverter(options.fromType, options.toType) THEN options.toType
                 ELSE "relative",
                 content[k],
                 [sourceFile |-> options.filePath, baseDir |-> options.baseDir,
                  aliasPrefix |-> options.aliasPrefix, strip |-> options.strip])]

\* transformImportPathsLogic: every source of the file handed to
\* convertSingleImportPath; the result is the content after the overwrites
transformImportPathsLogic(content, options) ==
    LET converterOpts ==
            [sourceFile |-> options.filePath,
             baseDir |-> options.baseDir,
             aliasPrefix |-> options.aliasPrefix,
             strip |-> options.strip]
    IN  [k \in 1..Len(content) |->
            IF Len(content[k]) = 0 THEN content[k]
            ELSE convertSingleImportPath(options.fromType, options.toType,
                                         content[k], converterOpts)]

\* A FileResult
FileResult(filePath, message, success) ==
    [filePath |-> filePath, message |-> message, success |-> success]

\* errorResult reporting the failure as a success
errorResultAsSuccess(filePath) ==
    FileResult(filePath, "Error processing file", TRUE)

\* The catch block of processFileContent
errorResult(filePath) ==
    FileResult(filePath, "Error processing file", FALSE)

NoResult == FileResult(EMPTY, "none", FALSE)

\* How far pMap is with one file
Queued == [state |-> "queued", newContent |-> <<>>, result |-> NoResult]
Writing(newContent) ==
    [state |-> "writing", newContent |-> newContent, result |-> NoResult]
Settled(result) == [state |-> "settled", newContent |-> <<>>, result |-> result]

IdleWalk ==
    [baseDir |-> EMPTY, strip |-> <<>>, pending |-> <<>>, dirs |-> <<>>,
     files |-> <<>>, mapped |-> <<>>]

InitRun ==
    /\ pc = "start"
    /\ procCwd = ProjectDir
    /\ disk \in Disks
    /\ args \in {[options |-> o, faults |-> f, files |-> disk] :
                    o \in RunOptions, f \in Faults}
    /\ out = <<>>
    /\ fsCalls = {}
    /\ walk = IdleWalk
    /\ thrown = "none"

\* The run as it starts to walk baseDir
StartedWalk(fromType, baseDir) ==
    [IdleWalk EXCEPT !.baseDir = baseDir,
                     !.strip = deriveStrip(fromType, baseDir, <<>>),
                     !.pending = <<baseDir>>]

\* The validation of convertImportPaths, its outcome known
Validated(baseDir, error) ==
    /\ fsCalls' = IF error \in {BaseDirRequired, AliasPrefixRequired} THEN {}
                  ELSE {<<"stat", baseDir>>}
    /\ thrown' = error
    /\ pc' = IF error # "none" THEN "thrown" ELSE "walking"
    /\ walk' = IF error # "none" THEN walk
               ELSE StartedWalk(args.options.fromType, baseDir)

\* convertImportPaths up to the call of processDirectoryRecursively
Validate ==
    /\ pc = "start"
    /\ Validated(path_resolve(<<CWD, args.options.baseDir>>),
                 configurationError(args.options))
    /\ UNCHANGED <<args, out, procCwd, disk>>

\* processDirectoryRecursively up to the call of pMap
ListDirectory ==
    /\ pc = "walking"
    /\ Len(walk.files) = 0
    /\ Len(walk.pending) > 0
    /\ LET dirPath == Head(walk.pending)
           entries == readdir(dirPath)
           matching == SelectSeq(entries, LAMBDA entry :
                           /\ entry.isFile
                           /\ \E ext \in DEFAULT_FILE_EXTENSIONS :
                                  endsWith(entry.name, ext))
           visible == SelectSeq(entries, LAMBDA entry :
                          /\ ~entry.isFile
                          /\ entry.name # NodeModulesName
                          /\ ~startsWith(entry.name, <<DOT>>))
           filesToProcess ==
               [i \in 1..Len(matching) |-> path_join(<<dirPath, matching[i].name>>)]
           directoriesToRecurse ==
               [i \in 1..Len(visible) |-> path_join(<<dirPath, visible[i].name>>)]
       IN  /\ fsCalls' = fsCalls \cup {<<"readdir", dirPath>>}
           /\ walk' =
                 IF dirPath \in args.faults.readdir
                 THEN [walk EXCEPT !.pending = Tail(@)]
                 ELSE IF Len(filesToProcess) = 0
                 THEN [walk EXCEPT !.pending = directoriesToRecurse \o Tail(@)]
                 ELSE [walk EXCEPT
                          !.pending = Tail(@),
                          !.dirs = directoriesToRecurse,
                          !.files = filesToProcess,
                          !.mapped = [i \in 1..Len(filesToProcess) |-> Queued]]
    /\ UNCHANGED <<pc, args, out, procCwd, disk, thrown>>

\* processFileContent from the content read up to the call of writeFile
afterRead(filePath, originalContent, newContent) ==
    IF \A k \in 1..Len(originalContent) : newContent[k] = originalContent[k]
    THEN Settled(FileResult(filePath, "No matching import paths found", TRUE))
    ELSE IF originalContent = newContent
    THEN Settled(FileResult(filePath, "No effective changes", TRUE))
    ELSE IF args.options.distJsrDryRun
    THEN Settled(FileResult(filePath, "Processed (dry run)", TRUE))
    ELSE Writing(newContent)

\* The options fileProcessor hands to transformImportPathsLogic
logicOptions(filePath) ==
    [fromType |-> args.options.fromType,
     toType |-> args.options.toType,
     filePath |-> filePath,
     aliasPrefix |-> args.options.aliasPrefix,
     baseDir |-> walk.baseDir,
     strip |-> walk.strip]

\* processFileContent for the i-th file of pMap, from readFile up to the
\* call of writeFile
ReadFile(i) ==
    /\ pc = "walking"
    /\ i \in 1..Len(walk.files)
    /\ walk.mapped[i].state = "queued"
    /\ Cardinality({j \in 1..(i - 1) : walk.mapped[j].state # "settled"})
           < CONCURRENCY_DEFAULT
    /\ fsCalls' = fsCalls \cup {<<"readFile", walk.files[i]>>}
    /\ walk' = [walk EXCEPT !.mapped[i] =
          IF walk.files[i] \in args.faults.readFile
          THEN Settled(errorResult(walk.files[i]))
          ELSE afterRead(walk.files[i], disk[walk.files[i]],
                   transformImportPathsLogic(disk[walk.files[i]],
                                             logicOptions(walk.files[i])))]
    /\ UNCHANGED <<pc, args, out, procCwd, disk, thrown>>

\* processFileContent for the i-th file of pMap, from writeFile on
WriteFile(i) ==
    /\ pc = "walking"
    /\ i \in 1..Len(walk.files)
    /\ walk.mapped[i].state = "writing"
    /\ LET filePath == walk.files[i]
       IN  /\ fsCalls' = fsCalls \cup {<<"writeFile", filePath>>}
           /\ IF filePath \in args.faults.writeFile
              THEN /\ disk' = disk
                   /\ walk' = [walk EXCEPT !.mapped[i] =
                                   Settled(errorResult(filePath))]
              ELSE /\ disk' = [disk EXCEPT ![filePath] = walk.mapped[i].newContent]
                   /\ walk' = [walk EXCEPT !.mapped[i] =
                                   Settled(FileResult(filePath, "Processed", TRUE))]
    /\ UNCHANGED <<pc, args, out, procCwd, thrown>>

\* processDirectoryRecursively once pMap has resolved: the results join the
\* list and the subdirectories are next
SettleMap ==
    /\ pc = "walking"
    /\ Len(walk.files) > 0
    /\ \A i \in 1..Len(walk.files) : walk.mapped[i].state = "settled"
    /\ out' = out \o [i \in 1..Len(walk.files) |-> walk.mapped[i].result]
    /\ walk' = [walk EXCEPT !.pending = walk.dirs \o @, !.dirs = <<>>,
                            !.files = <<>>, !.mapped = <<>>]
    /\ UNCHANGED <<pc, args, procCwd, disk, fsCalls, thrown>>

\* convertImportPaths returns the results
Return ==
    /\ pc = "walking"
    /\ Len(walk.files) = 0
    /\ Len(walk.pending) = 0
    /\ pc' = "returned"
    /\ UNCHANGED <<args, out, procCwd, runVars>>

NextRun ==
    \/ Validate
    \/ ListDirectory
    \/ \E i \in 1..Len(walk.files) : ReadFile(i)
    \/ \E i \in 1..Len(walk.files) : WriteFile(i)
    \/ SettleMap
    \/ Return

SpecRun == InitRun /\ [][NextRun]_vars

(***************************************************************************)
(* Vocabulary of the properties of the conversion engine                   *)
(***************************************************************************)
\* The configuration of the run is in error: an alias conversion without an
\* aliasPrefix, or a baseDir that is not an existing directory
IsConfigurationError(options) ==
    \/ /\ options.fromType = "alias" \/ options.toType = "alias"
       /\ Len(options.aliasPrefix) = 0
    \/ /\ Len(options.baseDir) > 0
       /\ path_resolve(<<procCwd, options.baseDir>>) \notin Directories

\* A source of the relative type: it starts with "./" or "../"
IsRelativeSource(source) ==
    startsWith(source, <<DOT, SLASH>>) \/ startsWith(source, <<DOT, DOT, SLASH>>)

\* The positions of the results reported for a file
ResultsFor(f) == {i \in 1..Len(out) : out[i].filePath = f}

\* The path made of the first k segments
PathOfSegments(segs, k) == <<SLASH>> \o JoinSlash(SubSeq(segs, 1, k))

\* A file the run has to process: it is below SourceDir, has one of the
\* extensions, and every directory on the way to it is neither node_modules
\* nor hidden and can be listed
IsEligible(f) ==
    LET segs == SegmentsOf(f)
        base == SegmentsOf(SourceDir)
    IN  /\ IsInside(base, segs)
        /\ \E ext \in DEFAULT_FILE_EXTENSIONS : endsWith(f, ext)
        /\ \A k \in (Len(base) + 1)..(Len(segs) - 1) :
               /\ segs[k] # NodeModulesName
               /\ segs[k][1] # DOT
               /\ PathOfSegments(segs, k) \notin args.faults.readdir

(***************************************************************************)
(* Properties of the conversion engine                                     *)
(***************************************************************************)
\* C3: for a file inside baseDir and a relative import r in canonical form
\* whose target lies inside baseDir, converting r from relative to alias and
\* the result back from alias to relative, for the same file, prefix and
\* baseDir, yields exactly r.
C3_RelativeAliasRoundTrip ==
    pc = "done" => out[2] = args.importPath

\* C4: a run whose configuration is in error (an alias conversion without
\* aliasPrefix, a baseDir that does not exist or is not a directory) fails
\* with an error, and at that point nothing under baseDir has been listed,
\* read or written.
C4_ConfigurationErrorTouchesNothing ==
    (pc # "start" /\ IsConfigurationError(args.options))
    => /\ pc = "thrown"
       /\ thrown # "none"
       /\ fsCalls \subseteq
              {<<"stat", path_resolve(<<procCwd, args.options.baseDir>>)>>}
       /\ disk = args.files
       /\ out = <<>>

\* C4 witness: an alias conversion over an existing directory, no aliasPrefix
\* given, has been rejected.
C4_Witness ==
    /\ pc = "thrown"
    /\ thrown = AliasPrefixRequired
    /\ args.options.baseDir = <<"s">>
    /\ args.options.fromType = "alias"
    /\ args.options.aliasPrefix = EMPTY
    /\ fsCalls = {}

\* C5: with fromType "relative", a source that starts with neither "./" nor
\* "../" is never changed, and a file that was read and holds no relative
\* source is left as it was and reported with success and the message
\* "No matching import paths found".
C5_OnlyRelativeSourcesRewritten ==
    (pc = "returned" /\ args.options.fromType = "relative")
    => \A f \in Files :
          /\ Len(disk[f]) = Len(args.files[f])
          /\ \A k \in 1..Len(args.files[f]) :
                 ~IsRelativeSource(args.files[f][k])
                     => disk[f][k] = args.files[f][k]
          /\ (/\ <<"readFile", f>> \in fsCalls
              /\ f \notin args.faults.readFile
              /\ \A k \in 1..Len(args.files[f]) :
                     ~IsRelativeSource(args.files[f][k]))
             => /\ disk[f] = args.files[f]
                /\ \E i \in ResultsFor(f) :
                       /\ out[i].success
                       /\ out[i].message = "No matching import paths found"

\* C6: a failure to read or to write one file is that file's result, with
\* success false and an error message; the run does not throw it, and every
\* eligible file has exactly one result.
C6_FileErrorsAreIsolated ==
    /\ pc \in {"walking", "returned"} => thrown = "none"
    /\ pc = "returned" =>
           \A f \in Files :
               /\ Cardinality(ResultsFor(f)) = IF IsEligible(f) THEN 1 ELSE 0
               /\ \A i \in ResultsFor(f) :
                      /\ f \in args.faults.readFile
                             => (~out[i].success
                                 /\ out[i].message = "Error processing file")
                      /\ (f \in args.faults.writeFile
                          /\ <<"writeFile", f>> \in fsCalls)
                             => (~out[i].success
                                 /\ out[i].message = "Error processing file")
                      /\ ~out[i].success
                             => f \in args.faults.readFile \cup args.faults.writeFile

\* C6 witness: the run has returned, the first file could not be read and
\* is reported as failed, the two other files have been rewritten.
C6_Witness ==
    /\ pc = "returned"
    /\ args.faults.readFile = {FileA}
    /\ Len(out) = 3
    /\ out[1] = FileResult(FileA, "Error processing file", FALSE)
    /\ out[2] = FileResult(FileB, "Processed", TRUE)
    /\ out[3] = FileResult(FileC, "Processed", TRUE)

(***************************************************************************)
(* A pure path function, called with one argument of any type              *)
(***************************************************************************)
NonStrings ==
    {JsNull, JsUndefined, JsZero, JsNumber, JsTrue, JsFalse, JsObject,
     JsEmptyArray}

ArgumentValues ==
    NonStrings \cup {JsString(EMPTY), JsString(<<SLASH, "a", SLASH, "b", DOT, "c">>)}

InitTypeGuard ==
    /\ pc = "call"
    /\ args \in [fn : PathFunctions, value : ArgumentValues]
    /\ out = <<>>
    /\ procCwd = <<SLASH, "w">>
    /\ NoRun

CallPathFunction ==
    /\ pc = "call"
    /\ out' = <<pathCall(args.fn, args.value, procCwd)>>
    /\ pc' = "called"
    /\ UNCHANGED <<args, procCwd, runVars>>

NextTypeGuard == CallPathFunction

SpecTypeGuard == InitTypeGuard /\ [][NextTypeGuard]_vars

\* C11: every pure path function called with a non-string argument fails
\* with a TypeError; it neither returns a value nor coerces the argument.
C11_NonStringIsTypeError ==
    (pc = "called" /\ args.value.typeof # "string")
    => out[1].kind = "throw" /\ out[1].error = "TypeError"

(***************************************************************************)
(* extname and basename, called on a path                                  *)
(***************************************************************************)
MaxDecomposeTokens == 4

DecomposeTokens == {<<SLASH>>, <<DOT>>, <<"a">>, <<"b">>}

Extensions == {EMPTY, <<DOT, "b">>, <<"b">>, <<"a", DOT, "b">>}

InitDecompose ==
    /\ pc = "decompose"
    /\ args \in [path : Paths(DecomposeTokens, MaxDecomposeTokens),
                 ext : Extensions]
    /\ out = <<>>
    /\ procCwd = <<SLASH, "w">>
    /\ NoRun

CallExtname ==
    /\ pc = "decompose"
    /\ out' = <<extname(args.path)>>
    /\ pc' = "extname"
    /\ UNCHANGED <<args, procCwd, runVars>>

CallBasename ==
    /\ pc = "decompose"
    /\ out' = <<basename(args.path, args.ext)>>
    /\ pc' = "basename"
    /\ UNCHANGED <<args, procCwd, runVars>>

NextDecompose == CallExtname \/ CallBasename

SpecDecompose == InitDecompose /\ [][NextDecompose]_vars

\* The last of the segments a path splits into at its separators
LastSegment(p) == Split(p)[Len(Split(p))]

RECURSIVE WithoutTrailingSeparators(_)
WithoutTrailingSeparators(p) ==
    IF Len(p) > 0 /\ p[Len(p)] = SLASH
    THEN WithoutTrailingSeparators(SubSeq(p, 1, Len(p) - 1))
    ELSE p

DotPositions(segment) == {i \in 1..Len(segment) : segment[i] = DOT}

\* The extension of one segment: from its last dot to its end, and empty
\* for ".", "..", a segment without a dot and one whose only dot is first
ExtensionOfSegment(segment) ==
    IF \/ segment = <<DOT>> \/ segment = DOUBLE_DOT
       \/ DotPositions(segment) = {} \/ DotPositions(segment) = {1}
    THEN EMPTY
    ELSE SubSeq(segment,
                CHOOSE i \in DotPositions(segment) :
                    \A j \in DotPositions(segment) : j <= i,
                Len(segment))

WithoutSuffix(segment, ext) ==
    IF Len(ext) > 0 /\ endsWith(segment, ext)
    THEN SubSeq(segment, 1, Len(segment) - Len(ext))
    ELSE segment

\* C17: extname(p) is the extension of the last segment of p alone,
\* whether the segment stands alone, under a directory or under the root.
C17_ExtnameOfLastSegment ==
    pc = "extname" => out[1] = ExtensionOfSegment(LastSegment(args.path))

\* C18: basename(p, ext) is the last segment of p without its trailing
\* separators, with the suffix ext removed when the segment ends with it.
C18_BasenameOfLastSegment ==
    pc = "basename"
    => out[1] = WithoutSuffix(LastSegment(WithoutTrailingSeparators(args.path)),
                              args.ext)

(***************************************************************************)
(* normalizeAliases, resolveAlias and reverseResolveAlias, called on a     *)
(* raw alias table                                                         *)
(***************************************************************************)
MaxAliases == 3

AliasA == <<"@", "a">>
AliasB == <<"@", "b">>
AliasC == <<"@", "c">>
AliasRoot == <<"@">>
AliasRootSlash == <<"@", SLASH>>
AliasNested == <<"@", SLASH, "a">>

\* Tables in which an alias may point into a later alias of the chain
\* AliasA, AliasB, AliasC, and never back
ChainTargets(key) ==
    CASE key = AliasA -> {<<SLASH, "z">>, AliasB, AliasC, AliasB \o <<SLASH, "x">>}
      [] key = AliasB -> {<<SLASH, "z">>, AliasC, AliasC \o <<SLASH, "y">>}
      [] key = AliasC -> {<<SLASH, "z">>, <<SLASH, "z", SLASH, "w">>}

\* Tables in which one alias is a prefix of another
PrefixTargets(key) == {<<SLASH, "r">>, <<SLASH, "s">>}

RECURSIVE EntryLists(_, _, _)
EntryLists(keys, targets(_), n) ==
    IF n = 0 THEN {<<>>}
    ELSE LET shorter == EntryLists(keys, targets, n - 1)
         IN  shorter \cup
             {Append(es, AliasEntry(k, v)) :
                 es \in shorter,
                 k \in keys,
                 v \in UNION {targets(key) : key \in keys}}

HasDistinctKeys(es) == \A i, j \in 1..Len(es) : es[i].key = es[j].key => i = j

RawEntryLists(keys, targets(_)) ==
    {es \in EntryLists(keys, targets, MaxAliases) :
        /\ HasDistinctKeys(es)
        /\ \A i \in 1..Len(es) : es[i].value \in targets(es[i].key)}

RawAliasTables ==
    {AliasObject(0, es, FALSE) :
        es \in RawEntryLists({AliasA, AliasB, AliasC}, ChainTargets)
               \cup RawEntryLists({AliasRoot, AliasRootSlash, AliasNested},
                                  PrefixTargets)}

AliasPaths ==
    {AliasA, AliasA \o <<SLASH, "x">>, AliasB \o <<SLASH, "x">>, AliasRoot,
     AliasNested, AliasNested \o <<SLASH, "x">>, <<"q">>,
     <<"q", BACK_SLASH, "x">>, <<SLASH, "z">>, <<SLASH, "z", SLASH, "y">>,
     <<SLASH, "r">>, <<SLASH, "r", SLASH, "a">>, <<SLASH, "s">>}

InitAlias ==
    /\ pc = "alias"
    /\ args \in [aliases : RawAliasTables, path : AliasPaths]
    /\ out = <<>>
    /\ procCwd = <<SLASH, "w">>
    /\ NoRun

CallNormalizeAliases ==
    /\ pc = "alias"
    /\ out' = <<normalizeAliases(args.aliases, 1)>>
    /\ pc' = "normalized"
    /\ UNCHANGED <<args, procCwd, runVars>>

CallNormalizeAliasesAgain ==
    /\ pc = "normalized"
    /\ out' = Append(out, normalizeAliases(out[1], 2))
    /\ pc' = "renormalized"
    /\ UNCHANGED <<args, procCwd, runVars>>

CallResolveAlias ==
    /\ pc = "alias"
    /\ out' = <<resolveAlias(args.path, args.aliases, 1)>>
    /\ pc' = "resolved"
    /\ UNCHANGED <<args, procCwd, runVars>>

CallReverseResolveAlias ==
    /\ pc = "alias"
    /\ out' = <<reverseResolveAlias(args.path, args.aliases, 1)>>
    /\ pc' = "reversed"
    /\ UNCHANGED <<args, procCwd, runVars>>

NextAlias ==
    \/ CallNormalizeAliases
    \/ CallNormalizeAliasesAgain
    \/ CallResolveAlias
    \/ CallReverseResolveAlias

SpecAlias == InitAlias /\ [][NextAlias]_vars

\* s begins with prefix and ends there or goes on with a separator
BeginsOnBoundary(s, prefix) ==
    /\ startsWith(s, prefix)
    /\ Len(s) = Len(prefix) \/ s[Len(prefix) + 1] = SLASH

WithoutTrailingSlash(s) ==
    IF Len(s) > 0 /\ s[Len(s)] = SLASH THEN SubSeq(s, 1, Len(s) - 1) ELSE s

\* An alias matches a path that equals it or goes on below it
AliasMatches(alias, path) == BeginsOnBoundary(path, WithoutTrailingSlash(alias))

MatchingEntries(entries, path) ==
    {i \in 1..Len(entries) : AliasMatches(entries[i].key, path)}

LongestMatch(entries, path) ==
    CHOOSE i \in MatchingEntries(entries, path) :
        \A j \in MatchingEntries(entries, path) :
            Len(entries[j].key) <= Len(entries[i].key)

\* C12: normalizeAliases is idempotent: normalizing a normalized table
\* returns the very same object, with the same entries in the same order.
C12_NormalizeAliasesIdempotent ==
    pc = "renormalized"
    => /\ out[2].id = out[1].id
       /\ out[2].entries = out[1].entries
       /\ out[2] = out[1]

C12_Witness ==
    /\ pc = "renormalized"
    /\ args.aliases.entries =
           <<AliasEntry(AliasA, AliasB \o <<SLASH, "x">>),
             AliasEntry(AliasB, <<SLASH, "z">>)>>
    /\ out[1].entries =
           <<AliasEntry(AliasA, <<SLASH, "z", SLASH, "x">>),
             AliasEntry(AliasB, <<SLASH, "z">>)>>
    /\ out[1].id = 1
    /\ out[2] = out[1]

\* C13: after normalizeAliases no target still begins, on a separator
\* boundary, with another alias of the table, whatever the insertion order.
C13_NestedAliasesFlattened ==
    pc = "normalized"
    => \A i, j \in 1..Len(out[1].entries) :
           i # j => ~BeginsOnBoundary(out[1].entries[i].value,
                                      out[1].entries[j].key)

\* The target the normalized table gives an alias
NormalizedTargetOf(alias) ==
    LET entries == normalizeAliases(args.aliases, 1).entries
    IN  entries[CHOOSE i \in 1..Len(entries) : entries[i].key = alias].value

\* The part of the path that follows the alias
RestAfter(path, alias) ==
    Substring(path, IF Len(alias) > Len(path) THEN Len(path) ELSE Len(alias))

\* C14: when several aliases match the path, resolveAlias applies the
\* longest of them, whatever the insertion order of the table.
C14_LongestAliasWins ==
    (pc = "resolved" /\ MatchingEntries(args.aliases.entries, args.path) # {})
    => LET alias == args.aliases.entries[
                        LongestMatch(args.aliases.entries, args.path)].key
       IN  out[1] = join(<<NormalizedTargetOf(alias),
                           RestAfter(args.path, alias)>>)

\* C15: resolveAlias returns the path unchanged when it neither equals an
\* alias nor starts with an alias followed by a separator.
C15_NoMatchReturnsInput ==
    (/\ pc = "resolved"
     /\ \A i \in 1..Len(args.aliases.entries) :
            /\ args.path # args.aliases.entries[i].key
            /\ ~startsWith(args.path, args.aliases.entries[i].key \o <<SLASH>>))
    => out[1] = args.path

\* The entries of the normalized table whose target is the path or a
\* prefix of it on a separator boundary
TargetMatches(path) ==
    {i \in 1..Len(args.aliases.entries) :
        BeginsOnBoundary(path,
                         NormalizedTargetOf(args.aliases.entries[i].key))}

\* C16: reverseResolveAlias returns exactly one path for each entry whose
\* target matches, ordered by non-increasing length, and nothing else.
C16_OneAliasPathPerMatch ==
    pc = "reversed"
    => /\ Len(out[1]) = Cardinality(TargetMatches(args.path))
       /\ \A i, j \in 1..Len(out[1]) : i < j => Len(out[1][i]) >= Len(out[1][j])

(***************************************************************************)
(* getFileImportsExports, called on a source text                          *)
(***************************************************************************)
MaxStatements == 3

\* One item of a brace block
Item(name, alias, isType) == [name |-> name, alias |-> alias, isType |-> isType]

\* What a statement is written from: the keyword, whether the keyword type
\* follows it, the names it binds and the source
Parts(form, keyword, typeKeyword, defaultName, namespaceName, items, source) ==
    [form |-> form, keyword |-> keyword, typeKeyword |-> typeKeyword,
     defaultName |-> defaultName, namespaceName |-> namespaceName,
     items |-> items, source |-> source]

RelativeSource == <<DOT, SLASH, "r">>
BareSource == <<"b">>
AliasSource == <<"@", SLASH, "m">>
TypesName == <<"t", "y", "p", "e", "s">>

ScanStatements ==
    {Parts("from", ImportWord, FALSE, <<"a">>, EMPTY, <<>>, RelativeSource),
     Parts("from", ImportWord, TRUE, EMPTY, EMPTY,
           <<Item(<<"X">>, EMPTY, FALSE)>>, RelativeSource),
     Parts("from", ImportWord, FALSE, EMPTY, EMPTY,
           <<Item(<<"X">>, EMPTY, TRUE), Item(<<"Y">>, <<"Z">>, FALSE)>>,
           AliasSource),
     Parts("from", ImportWord, FALSE, EMPTY, EMPTY,
           <<Item(<<"X">>, <<"Y">>, TRUE)>>, BareSource),
     Parts("from", ImportWord, FALSE, TypesName, EMPTY, <<>>, BareSource),
     Parts("from", ImportWord, TRUE, EMPTY, <<"n">>, <<>>, BareSource),
     Parts("dynamic", ImportWord, FALSE, EMPTY, EMPTY, <<>>, RelativeSource),
     Parts("from", ExportWord, FALSE, EMPTY, EMPTY,
           <<Item(<<"X">>, <<"Y">>, FALSE)>>, RelativeSource),
     Parts("from", ExportWord, TRUE, EMPTY, EMPTY,
           <<Item(<<"X">>, EMPTY, FALSE)>>, BareSource),
     Parts("from", ExportWord, FALSE, EMPTY, <<"n">>, <<>>, RelativeSource),
     Parts("default", ExportWord, FALSE, <<"a">>, EMPTY, <<>>, EMPTY),
     Parts("named", ExportWord, FALSE, <<"a">>, EMPTY, <<>>, EMPTY)}

Quoted(source) == <<"\"">> \o source \o <<"\"">>

ItemText(item) ==
    (IF item.isType THEN TypeWord \o <<" ">> ELSE EMPTY)
    \o item.name
    \o (IF Len(item.alias) > 0 THEN SpacedAs \o item.alias ELSE EMPTY)

RECURSIVE ItemsText(_)
ItemsText(items) ==
    IF Len(items) = 1 THEN ItemText(items[1])
    ELSE ItemText(items[1]) \o <<",", " ">> \o ItemsText(Tail(items))

BindingText(parts) ==
    IF Len(parts.namespaceName) > 0
    THEN <<"*">> \o SpacedAs \o parts.namespaceName
    ELSE IF Len(parts.items) > 0
    THEN <<"{", " ">> \o ItemsText(parts.items) \o <<" ", "}">>
    ELSE parts.defaultName

\* The text of a statement
TextOf(parts) ==
    CASE parts.form = "from" ->
             parts.keyword \o <<" ">>
             \o (IF parts.typeKeyword THEN TypeWord \o <<" ">> ELSE EMPTY)
             \o BindingText(parts)
             \o <<" ">> \o FromWord \o <<" ">> \o Quoted(parts.source)
      [] parts.form = "dynamic" ->
             ImportWord \o <<"(">> \o Quoted(parts.source) \o <<")">>
      [] parts.form = "default" ->
             ExportWord \o <<" ", "d", "e", "f", "a", "u", "l", "t", " ">>
             \o parts.defaultName
      [] parts.form = "named" ->
             ExportWord \o <<" ", "c", "o", "n", "s", "t", " ">>
             \o parts.defaultName

PartsOfText(statement) == CHOOSE parts \in ScanStatements : TextOf(parts) = statement

RECURSIVE Contents(_)
Contents(n) ==
    IF n = 0 THEN {<<>>}
    ELSE Contents(n - 1)
         \cup {Append(content, TextOf(parts)) :
                  content \in Contents(n - 1), parts \in ScanStatements}

AllPathTypes == {"alias", "relative", "absolute", "bare", "module"}

ScanOptions ==
    [kind : {"all", "import", "export"},
     pathTypes : {AllPathTypes, {"relative", "alias"}},
     limitPerType : {{}, {0}, {1}, {2}}]

InitScan ==
    /\ pc = "scan"
    /\ args \in [content : Contents(MaxStatements), options : ScanOptions]
    /\ out = <<>>
    /\ procCwd = <<SLASH, "w">>
    /\ NoRun

CallGetFileImportsExports ==
    /\ pc = "scan"
    /\ out' = <<getFileImportsExports(args.content, args.options)>>
    /\ pc' = "scanned"
    /\ UNCHANGED <<args, procCwd, runVars>>

NextScan == CallGetFileImportsExports

SpecScan == InitScan /\ [][NextScan]_vars

\* The scan without a limit, under the same filters
FullScan == scanAll(args.content, args.options.kind, args.options.pathTypes)

Buckets == {"import", "export"} \X (AllPathTypes \cup {"none"})

InBucket(results, bucket) ==
    SelectSeq(results, LAMBDA info : <<info.kind, info.pathType>> = bucket)

FirstOf(xs, n) == SubSeq(xs, 1, IF n < Len(xs) THEN n ELSE Len(xs))

\* C19: with limitPerType = n every bucket of the result holds exactly the
\* first min(n, bucket size) statements of the full scan, in their order.
C19_LimitPerBucket ==
    (pc = "scanned" /\ args.options.limitPerType # {})
    => \A bucket \in Buckets :
           InBucket(out[1], bucket)
           = FirstOf(InBucket(FullScan, bucket),
                     CHOOSE n \in args.options.limitPerType : TRUE)

NamedOf(specifiers) == SelectSeq(specifiers, LAMBDA s : s.type = "named")

ExpectedNamed(items) ==
    [i \in 1..Len(items) |->
        Specifier("named", items[i].name, items[i].alias, items[i].isType)]

\* C20: a statement is flagged isTypeOnly exactly when the keyword type
\* directly follows import or export; in a statement not so flagged each
\* named specifier has isType exactly when it carries its own type keyword,
\* and its rename is recorded whatever the flag.
C20_TypeFlagsPerSpecifier ==
    pc = "scanned"
    => \A i \in 1..Len(out[1]) :
           PartsOfText(out[1][i].statement).form = "from"
           => /\ out[1][i].isTypeOnly
                 = PartsOfText(out[1][i].statement).typeKeyword
              /\ ~out[1][i].isTypeOnly
                 => NamedOf(out[1][i].specifiers)
                    = ExpectedNamed(PartsOfText(out[1][i].statement).items)

(***************************************************************************)
(* The classifiers of import paths, called on one path                     *)
(***************************************************************************)
LibraryName == <<"l", "a", "b">>

PathPrefixes ==
    {EMPTY, AliasAt, AliasTilde, DotSlash, DotDotSlash, <<SLASH>>,
     <<"C", COLON, BACK_SLASH>>, <<"C", COLON, SLASH>>, HttpScheme, HttpsScheme,
     <<"@", "s", SLASH>>, <<DOT>>, <<"@">>, <<"~">>, <<"s", SLASH>>}

PathBodies == {EMPTY, <<"a">>, LibraryName, <<"a", SLASH, "b">>}

ClassifiedPaths == {pre \o body : pre \in PathPrefixes, body \in PathBodies}

\* The workspace library registry of a run (libsList), by its names
LibraryRegistries == {{}, {LibraryName}}

InitClassify ==
    /\ pc = "call"
    /\ args \in [path : ClassifiedPaths, libsList : LibraryRegistries]
    /\ out = <<>>
    /\ procCwd = <<SLASH, "w">>
    /\ NoRun

CallDetermineImportPathType ==
    /\ pc = "call"
    /\ out' = <<determineImportPathType(args.path)>>
    /\ pc' = "classified"
    /\ UNCHANGED <<args, procCwd, runVars>>

CallGetPathType ==
    /\ pc = "call"
    /\ out' = <<PathTypeInfo(getPathType(args.path),
                             {pathTypeSymbolOf(args.path, getPathType(args.path))})>>
    /\ pc' = "scanned"
    /\ UNCHANGED <<args, procCwd, runVars>>

NextClassify == CallDetermineImportPathType \/ CallGetPathType

SpecClassify == InitClassify /\ [][NextClassify]_vars

\* A drive letter followed by a separator
IsDriveWithSeparator(path) ==
    /\ Len(path) >= 3
    /\ IsLetter(path[1])
    /\ path[2] = COLON
    /\ IsSep(path[3])

\* The first-match decision: alias, relative, absolute, URL, registry, bare
FirstMatchType(path, libsList) ==
    IF startsWith(path, AliasAt) \/ startsWith(path, AliasTilde) THEN "alias"
    ELSE IF startsWith(path, DotSlash) \/ startsWith(path, DotDotSlash) THEN "relative"
    ELSE IF startsWith(path, <<SLASH>>) \/ IsDriveWithSeparator(path) THEN "absolute"
    ELSE IF startsWith(path, HttpScheme) \/ startsWith(path, HttpsScheme) THEN "module"
    ELSE IF path \in libsList THEN "module"
    ELSE "bare"

\* C21: the classifier of import paths gives every path the type of the first
\* rule that matches it, in the order alias prefix, relative prefix, absolute
\* root, URL scheme (module), library registry (module), and bare otherwise.
C21_FirstMatchClassification ==
    pc = "classified" => out[1].type = FirstMatchType(args.path, args.libsList)

(***************************************************************************)
(* A run with a pair of types that has no converter                        *)
(***************************************************************************)
\* The run passes the validation of its options
PassesValidation(options) ==
    Len(options.baseDir) > 0 /\ ~IsConfigurationError(options)

\* C22: a run that passes validation with a pair (fromType, toType) that has
\* no converter, fromType = toType included, does not fail: it never throws,
\* never writes, every file keeps its content, and every file that could
\* be read is reported with success and "No matching import paths found".
C22_UnregisteredPairChangesNothing ==
    (/\ ~HasConverter(args.options.fromType, args.options.toType)
     /\ PassesValidation(args.options))
    => /\ thrown = "none"
       /\ disk = args.files
       /\ \A f \in Files : <<"writeFile", f>> \notin fsCalls
       /\ \A i \in 1..Len(out) :
              out[i].filePath \notin args.faults.readFile
                  => out[i] = FileResult(out[i].filePath,
                                         "No matching import paths found", TRUE)
       /\ pc = "returned" =>
              \A f \in Files : IsEligible(f) => Cardinality(ResultsFor(f)) = 1

\* C22 witness: an alias to alias run with the prefix "~/" has returned; the
\* files with the sources "~/d/c" and "~/a" were read and are as they were.
C22_Witness ==
    /\ pc = "returned"
    /\ args.options.fromType = "alias"
    /\ args.options.toType = "alias"
    /\ args.options.aliasPrefix = <<"~", SLASH>>
    /\ ~args.options.distJsrDryRun
    /\ args.files[FileA] = <<<<"~", SLASH, "d", SLASH, "c">>>>
    /\ args.files[FileC] = <<<<"~", SLASH, "a">>>>
    /\ {<<"readFile", FileA>>, <<"readFile", FileC>>} \subseteq fsCalls
    /\ disk = args.files
    /\ Len(out) = 3
    /\ out[1] = FileResult(FileA, "No matching import paths found", TRUE)

(***************************************************************************)
(* win32.toNamespacedPath, called on a path                                *)
(***************************************************************************)
MaxWin32Tokens == 5

Win32Tokens ==
    {<<SLASH>>, <<BACK_SLASH>>, <<"C", COLON>>, <<"a">>, <<"s">>, DOUBLE_DOT}

InitWin32 ==
    /\ pc = "call"
    /\ args \in {<<p>> : p \in Paths(Win32Tokens, MaxWin32Tokens)}
    /\ out = <<>>
    /\ procCwd \in WorkingDirs
    /\ NoRun

CallWin32ToNamespacedPath ==
    /\ pc = "call"
    /\ out' = <<win32_toNamespacedPath(args[1], procCwd)>>
    /\ pc' = "namespaced"
    /\ UNCHANGED <<args, procCwd, runVars>>

CallWin32IsAbsolute ==
    /\ pc = "call"
    /\ out' = <<win32_isAbsolute(args[1])>>
    /\ pc' = "tested"
    /\ UNCHANGED <<args, procCwd, runVars>>

NextWin32 == CallWin32ToNamespacedPath \/ CallWin32IsAbsolute

SpecWin32 == InitWin32 /\ [][NextWin32]_vars

\* The segments of an absolute path with "." and ".." resolved
ResolvedSegments(p) == Descend(<<>>, SegmentsOf(SlashesForward(p)))

\* The segments of a backslash-separated path
BackslashSegments(s) == SegmentsOf(SlashesForward(s))

\* C23: for a drive-rooted p, win32.toNamespacedPath(p) is the prefix \\?\
\* followed by the resolved path with backslashes as separators; for a UNC
\* path p it is the prefix \\?\UNC\ followed by server\share\... .
C23_NamespacedFormOfAbsolute ==
    pc = "namespaced" =>
        /\ IsDriveRooted(args[1]) =>
               /\ startsWith(out[1], NamespacePrefix)
               /\ SLASH \notin {out[1][i] : i \in 1..Len(out[1])}
               /\ BackslashSegments(Substring(out[1], Len(NamespacePrefix)))
                      = ResolvedSegments(args[1])
        /\ IsUncRooted(args[1]) =>
               /\ startsWith(out[1], UncNamespacePrefix)
               /\ SLASH \notin {out[1][i] : i \in 1..Len(out[1])}
               /\ BackslashSegments(Substring(out[1], Len(UncNamespacePrefix)))
                      = ResolvedSegments(args[1])

(***************************************************************************)
(* convertImportsExt, applied to the content of one file                   *)
(***************************************************************************)
MaxExtStatements == 2

\* A statement of a file: an import with a from clause, a dynamic import, or
\* a constant that holds a string
ExtStatement(form, quote, source) == [form |-> form, quote |-> quote, source |-> source]

RelativeJs == <<DOT, SLASH, "a">> \o JsExt
RelativeTs == <<DOT, SLASH, "a">> \o TsExt
RelativeBare == <<DOT, SLASH, "a">>
PackageName == <<"l", "a", "b">>
ScopedPackageName == <<"@", "s", SLASH, "a">>
NodeBuiltin == <<"n", "o", "d", "e", COLON, "f", "s">>
UrlSource == HttpScheme \o <<"a">>

ExtStatements ==
    {ExtStatement("from", "\"", s) :
         s \in {RelativeJs, RelativeTs, RelativeBare, PackageName,
                ScopedPackageName, NodeBuiltin, UrlSource}}
    \cup {ExtStatement("dynamic", "'", RelativeJs),
          ExtStatement("const", "\"", RelativeJs),
          ExtStatement("const", "\"", RelativeBare)}

\* The text of a statement
ExtStatementText(st) ==
    CASE st.form = "from" ->
             ImportWord \o <<" ", "x", " ">> \o FromWord \o <<" ", st.quote>>
             \o st.source \o <<st.quote>>
      [] st.form = "dynamic" ->
             ImportWord \o <<"(", st.quote>> \o st.source \o <<st.quote, ")">>
      [] st.form = "const" ->
             <<"c", "o", "n", "s", "t", " ", "s", " ", "=", " ", st.quote>>
             \o st.source \o <<st.quote>>

\* The statements of a file, one per line
RECURSIVE ExtFileText(_)
ExtFileText(statements) ==
    IF Len(statements) = 0 THEN EMPTY
    ELSE IF Len(statements) = 1 THEN ExtStatementText(statements[1])
    ELSE ExtStatementText(statements[1]) \o <<NEWLINE>> \o ExtFileText(Tail(statements))

RECURSIVE ExtStatementLists(_)
ExtStatementLists(n) ==
    IF n = 0 THEN {<<>>}
    ELSE LET shorter == ExtStatementLists(n - 1)
         IN  shorter \cup {Append(xs, st) : xs \in shorter, st \in ExtStatements}

ImportExtTypes == {"js", "ts", "none"}

InitExt ==
    /\ pc = "call"
    /\ args \in {[statements |-> sts, content |-> ExtFileText(sts),
                  extFrom |-> f, extTo |-> t] :
                     sts \in ExtStatementLists(MaxExtStatements) \ {<<>>},
                     f \in ImportExtTypes, t \in ImportExtTypes}
    /\ out = <<>>
    /\ procCwd = <<SLASH, "w">>
    /\ NoRun

CallConvertExtOfFile ==
    /\ pc = "call"
    /\ out' = <<convertExtOfFile(args.content, args.extFrom, args.extTo)>>
    /\ pc' = "converted"
    /\ UNCHANGED <<args, procCwd, runVars>>

NextExt == CallConvertExtOfFile

SpecExt == InitExt /\ [][NextExt]_vars

\* The lines of a text
RECURSIVE LinesOf(_, _, _)
LinesOf(text, i, cur) ==
    IF i > Len(text) THEN <<cur>>
    ELSE IF text[i] = NEWLINE THEN <<cur>> \o LinesOf(text, i + 1, EMPTY)
    ELSE LinesOf(text, i + 1, Append(cur, text[i]))

\* A path written with the extension ext; with "none", a path that ends in
\* neither ".js" nor ".ts"
WrittenWith(source, ext) ==
    IF ext = "none" THEN ~endsWith(source, JsExt) /\ ~endsWith(source, TsExt)
    ELSE endsWith(source, extStr(ext))

\* The path without its extension ext
WithoutExt(source, ext) == SubSeq(source, 1, Len(source) - Len(extStr(ext)))

\* The source an import has after the conversion: a relative path written
\* with extFrom gets extTo, every other source stays
ConvertedSource(source, extFrom, extTo) ==
    IF IsRelativeSource(source) /\ WrittenWith(source, extFrom)
    THEN WithoutExt(source, extFrom) \o extStr(extTo)
    ELSE source

\* C24: after convertImportsExt every import statement of a file reads as
\* before, except that a relative source written with extension extFrom has
\* extension extTo instead; package, node: and URL sources and sources that
\* carry the target extension already are unchanged, for every extFrom and
\* extTo, "none" included.
C24_OnlyRelativeExtensionsRewritten ==
    pc = "converted" =>
        LET lines == LinesOf(out[1].updated, 1, EMPTY)
        IN  /\ Len(lines) = Len(args.statements)
            /\ \A k \in 1..Len(args.statements) :
                   args.statements[k].form # "const" =>
                       lines[k] = ExtStatementText(
                                      [args.statements[k] EXCEPT !.source =
                                           ConvertedSource(@, args.extFrom, args.extTo)])

\* The 'to' value recorded for an import path, the path itself when no
\* change is recorded for it
RecordedTo(changes, importPath) ==
    IF \E c \in 1..Len(changes) : changes[c].from = importPath
    THEN changes[CHOOSE c \in 1..Len(changes) : changes[c].from = importPath].to
    ELSE importPath

\* The text with the source of each of the first k matches replaced by the
\* 'to' value recorded for it, every other character as it was
RECURSIVE WithSourcesReplaced(_, _, _, _)
WithSourcesReplaced(text, matches, changes, k) ==
    IF k = 0 THEN text
    ELSE WithSourcesReplaced(
             SubSeq(text, 1, matches[k].open)
                 \o RecordedTo(changes, matches[k].importPath)
                 \o SubSeq(text, matches[k].close, Len(text)),
             matches, changes, k - 1)

\* The import statements of a text, as the import regex finds them
MatchedImports(text) == importMatches(text, 1, EMPTY)

\* C30: the file convertImportsExt leaves behind is the original with the
\* quoted source of each matched import replaced by the 'to' value of its
\* recorded change, and nothing else changed: an equal quoted string
\* elsewhere stays, and no replaced source is altered a second time.
C30_OnlyMatchedSourcesReplaced ==
    pc = "converted" =>
        out[1].updated =
            WithSourcesReplaced(args.content, MatchedImports(args.content),
                                out[1].changes, Len(MatchedImports(args.content)))

(***************************************************************************)
(* stripPathSegments, called on a path, a count and an alias               *)
(***************************************************************************)
MaxStripTokens == 5

StripTokens ==
    {<<SLASH>>, <<"a">>, <<"b">>, <<DOT>>, DOUBLE_DOT, <<"@">>, <<"C", COLON>>}

StripCounts == {0, 1, 2}

InitStrip ==
    /\ pc = "call"
    /\ args \in [path : Paths(StripTokens, MaxStripTokens), count : StripCounts,
                 alias : {EMPTY, <<"@">>}]
    /\ out = <<>>
    /\ procCwd = <<SLASH, "w">>
    /\ NoRun

CallStripPathSegments ==
    /\ pc = "call"
    /\ out' = <<stripPathSegments(args.path, args.count, args.alias)>>
    /\ pc' = "stripped"
    /\ UNCHANGED <<args, procCwd, runVars>>

NextStrip == CallStripPathSegments

SpecStrip == InitStrip /\ [][NextStrip]_vars

\* The segments of a path after its root
SegmentsAfterRoot(p) ==
    IF IsDriveRooted(p) THEN Tail(SegmentsOf(p)) ELSE SegmentsOf(p)

\* The segments that are kept in front: the alias segment, then the leading
\* "." and ".." segments
KeptCount(segments, alias) ==
    LET aliasCount == IF Len(alias) > 0 /\ Len(segments) > 0
                         /\ startsWith(segments[1], alias)
                      THEN 1 ELSE 0
    IN  aliasCount
        + leadingRelativeCount(SubSeq(segments, aliasCount + 1, Len(segments)))

\* The segments after the first min(n, k) of the k body segments are removed
SegmentsLeft(segments, kept, n) ==
    LET k == Len(segments) - kept
        removed == IF n < k THEN n ELSE k
    IN  SubSeq(segments, 1, kept) \o SubSeq(segments, kept + removed + 1, Len(segments))

\* The segments stripPathSegments has to leave of the path of the call
StripSegmentsLeft ==
    SegmentsLeft(SegmentsAfterRoot(args.path),
                 KeptCount(SegmentsAfterRoot(args.path), args.alias), args.count)

\* C25: stripPathSegments(path, n, alias) removes exactly the first min(n, k)
\* of the k body segments; the root, the alias segment and the leading "."
\* and ".." segments are kept, a path that starts with "./" or "../" still
\* starts with it, and an empty path or n <= 0 gives the input.  A result
\* with no segment left and no root is written ".".
C25_StripsLeadingBodySegments ==
    pc = "stripped" =>
        IF Len(args.path) = 0 \/ args.count <= 0 THEN out[1] = args.path
        ELSE /\ \/ SegmentsAfterRoot(out[1]) = StripSegmentsLeft
                \/ out[1] = <<DOT>> /\ StripSegmentsLeft = <<>>
             /\ IsDriveRooted(args.path) => startsWith(out[1], RootOf(args.path))
             /\ IsPosixRooted(args.path) => IsPosixRooted(out[1])
             /\ (startsWith(args.path, DotSlash) /\ Len(StripSegmentsLeft) > 1)
                    => startsWith(out[1], DotSlash)
             /\ (startsWith(args.path, DotDotSlash) /\ Len(StripSegmentsLeft) > 1)
                    => startsWith(out[1], DotDotSlash)

(***************************************************************************)
(* processDirectoryRecursively and pMap on a tree whose top directory      *)
(* holds more files than the concurrency limit.  The content of a file is  *)
(* "original" or "converted"; fsCalls counts the calls for each path.      *)
(***************************************************************************)
PoolRoot == <<SLASH, "q">>
PoolFirstDir == PoolRoot \o <<SLASH, "d">>
PoolSecondDir == PoolRoot \o <<SLASH, "e">>
PoolModulesDir == PoolRoot \o <<SLASH>> \o NodeModulesName
PoolHiddenDir == PoolRoot \o <<SLASH, DOT, "g">>

PoolRootNames == <<"a", "b", "c", "f", "l", "s", "w">>

\* readdir(dirPath, { withFileTypes: true }) on the tree
readdirOfPool(dirPath) ==
    CASE dirPath = PoolRoot ->
           [i \in 1..Len(PoolRootNames) |->
               [name |-> <<PoolRootNames[i]>> \o DotTs, isFile |-> TRUE]]
           \o <<[name |-> <<"n", DOT, "m", "d">>, isFile |-> TRUE],
                [name |-> <<"d">>, isFile |-> FALSE],
                [name |-> NodeModulesName, isFile |-> FALSE],
                [name |-> <<DOT, "g">>, isFile |-> FALSE],
                [name |-> <<"e">>, isFile |-> FALSE]>>
      [] dirPath = PoolFirstDir ->
           <<[name |-> <<"x">> \o DotTs, isFile |-> TRUE],
             [name |-> <<"y">> \o DotTs, isFile |-> TRUE]>>
      [] dirPath = PoolSecondDir -> <<[name |-> <<"z">> \o DotTs, isFile |-> TRUE]>>
      [] dirPath = PoolModulesDir -> <<[name |-> <<"m">> \o DotTs, isFile |-> TRUE]>>
      [] dirPath = PoolHiddenDir -> <<[name |-> <<"g">> \o DotTs, isFile |-> TRUE]>>
      [] OTHER -> <<>>

PoolDirectories ==
    {PoolRoot, PoolFirstDir, PoolSecondDir, PoolModulesDir, PoolHiddenDir}

\* Every file of the tree, by its full path
PoolFiles ==
    UNION {{path_join(<<d, readdirOfPool(d)[i].name>>) :
               i \in {j \in 1..Len(readdirOfPool(d)) : readdirOfPool(d)[j].isFile}} :
           d \in PoolDirectories}

PoolCalls ==
    ({"readFile", "writeFile"} \X PoolFiles) \cup ({"readdir"} \X PoolDirectories)

\* One more call of the file system
called(calls, op, target) == [calls EXCEPT ![<<op, target>>] = @ + 1]

\* The inputs of a run: the files whose imports the conversion changes, the
\* dry-run flag, and the calls that fail
PoolInputs ==
    [changed : {PoolFiles, {},
                {path_join(<<PoolRoot, <<"a">> \o DotTs>>),
                 path_join(<<PoolFirstDir, <<"y">> \o DotTs>>)}},
     distJsrDryRun : BOOLEAN,
     faults : {[readFile |-> {}, writeFile |-> {}, readdir |-> {}],
               [readFile |-> {path_join(<<PoolRoot, <<"b">> \o DotTs>>)},
                writeFile |-> {}, readdir |-> {}],
               [readFile |-> {}, writeFile |-> {}, readdir |-> {PoolFirstDir}]}]

Reading == [state |-> "reading", newContent |-> <<>>, result |-> NoResult]

InitPool ==
    /\ pc = "walking"
    /\ procCwd = PoolRoot
    /\ args \in PoolInputs
    /\ disk = [f \in PoolFiles |-> "original"]
    /\ out = <<>>
    /\ fsCalls = [c \in PoolCalls |-> 0]
    /\ walk = [IdleWalk EXCEPT !.baseDir = PoolRoot, !.pending = <<PoolRoot>>]
    /\ thrown = "none"

\* pMap with the concurrency limit left out: every mapper starts at once
pMapStartedUnbounded(count, concurrency) == count

\* The number of mappers pMap starts when it is called on count items
pMapStarted(count, concurrency) ==
    IF count < concurrency THEN count ELSE concurrency

\* pMap once a mapper has settled: the first item that has not started,
\* if there is one, starts
pMapNext(files, mapped, calls) ==
    LET queued == {j \in 1..Len(files) : mapped[j].state = "queued"}
    IN  IF queued = {} THEN [mapped |-> mapped, calls |-> calls]
        ELSE LET j == CHOOSE q \in queued : \A r \in queued : q <= r
             IN  [mapped |-> [mapped EXCEPT ![j] = Reading],
                  calls |-> called(calls, "readFile", files[j])]

\* processDirectoryRecursively up to the call of pMap, which starts the
\* first mappers
PoolListDirectory ==
    /\ pc = "walking"
    /\ Len(walk.files) = 0
    /\ Len(walk.pending) > 0
    /\ LET dirPath == Head(walk.pending)
           entries == readdirOfPool(dirPath)
           matching == SelectSeq(entries, LAMBDA entry :
                           /\ entry.isFile
                           /\ \E ext \in DEFAULT_FILE_EXTENSIONS :
                                  endsWith(entry.name, ext))
           visible == SelectSeq(entries, LAMBDA entry :
                          /\ ~entry.isFile
                          /\ entry.name # NodeModulesName
                          /\ ~startsWith(entry.name, <<DOT>>))
           filesToProcess ==
               [i \in 1..Len(matching) |-> path_join(<<dirPath, matching[i].name>>)]
           directoriesToRecurse ==
               [i \in 1..Len(visible) |-> path_join(<<dirPath, visible[i].name>>)]
           started == pMapStarted(Len(filesToProcess), CONCURRENCY_DEFAULT)
           listed == called(fsCalls, "readdir", dirPath)
       IN  IF dirPath \in args.faults.readdir
           THEN /\ fsCalls' = listed
                /\ walk' = [walk EXCEPT !.pending = Tail(@)]
           ELSE IF Len(filesToProcess) = 0
           THEN /\ fsCalls' = listed
                /\ walk' = [walk EXCEPT !.pending = directoriesToRecurse \o Tail(@)]
           ELSE /\ fsCalls' =
                     [c \in PoolCalls |->
                         IF c \in {<<"readFile", filesToProcess[i]>> : i \in 1..started}
                         THEN listed[c] + 1 ELSE listed[c]]
                /\ walk' = [walk EXCEPT
                               !.pending = Tail(@),
                               !.dirs = directoriesToRecurse,
                               !.files = filesToProcess,
                               !.mapped = [i \in 1..Len(filesToProcess) |->
                                              IF i <= started THEN Reading ELSE Queued]]
    /\ UNCHANGED <<pc, args, out, procCwd, disk, thrown>>

\* A mapper settles with its result, and pMap starts the next one
PoolSettled(i, result, calls) ==
    LET next == pMapNext(walk.files, [walk.mapped EXCEPT ![i] = Settled(result)], calls)
    IN  /\ walk' = [walk EXCEPT !.mapped = next.mapped]
        /\ fsCalls' = next.calls

\* processFileContent for the i-th file once readFile has settled, up to
\* the call of writeFile
PoolReadDone(i) ==
    /\ pc = "walking"
    /\ i \in 1..Len(walk.files)
    /\ walk.mapped[i].state = "reading"
    /\ LET filePath == walk.files[i]
       IN  IF filePath \in args.faults.readFile
           THEN PoolSettled(i, errorResult(filePath), fsCalls)
           ELSE IF filePath \notin args.changed
           THEN PoolSettled(i, FileResult(filePath, "No matching import paths found",
                                          TRUE), fsCalls)
           ELSE IF args.distJsrDryRun
           THEN PoolSettled(i, FileResult(filePath, "Processed (dry run)", TRUE),
                            fsCalls)
           ELSE /\ walk' = [walk EXCEPT !.mapped[i] = Writing("converted")]
                /\ fsCalls' = called(fsCalls, "writeFile", filePath)
    /\ UNCHANGED <<pc, args, out, procCwd, disk, thrown>>

\* processFileContent for the i-th file once writeFile has settled
PoolWriteDone(i) ==
    /\ pc = "walking"
    /\ i \in 1..Len(walk.files)
    /\ walk.mapped[i].state = "writing"
    /\ disk' = [disk EXCEPT ![walk.files[i]] = walk.mapped[i].newContent]
    /\ PoolSettled(i, FileResult(walk.files[i], "Processed", TRUE), fsCalls)
    /\ UNCHANGED <<pc, args, out, procCwd, thrown>>

\* pMap has resolved: the results join the list, the subdirectories are next
PoolSettleMap ==
    /\ pc = "walking"
    /\ Len(walk.files) > 0
    /\ \A i \in 1..Len(walk.files) : walk.mapped[i].state = "settled"
    /\ out' = out \o [i \in 1..Len(walk.files) |-> walk.mapped[i].result]
    /\ walk' = [walk EXCEPT !.pending = walk.dirs \o @, !.dirs = <<>>,
                            !.files = <<>>, !.mapped = <<>>]
    /\ UNCHANGED <<pc, args, procCwd, disk, fsCalls, thrown>>

PoolReturn ==
    /\ pc = "walking"
    /\ Len(walk.files) = 0
    /\ Len(walk.pending) = 0
    /\ pc' = "returned"
    /\ UNCHANGED <<args, out, procCwd, runVars>>

NextPool ==
    \/ PoolListDirectory
    \/ \E i \in 1..Len(walk.files) : PoolReadDone(i)
    \/ \E i \in 1..Len(walk.files) : PoolWriteDone(i)
    \/ PoolSettleMap
    \/ PoolReturn

SpecPool == InitPool /\ [][NextPool]_vars

\* The file tasks in flight: started and not settled
InFlight ==
    {i \in 1..Len(walk.files) : walk.mapped[i].state \in {"reading", "writing"}}

\* A task for the file has started
HasStarted(f) == fsCalls[<<"readFile", f>>] > 0

\* The task for the file has completed: it has settled with its result
HasCompleted(f) ==
    \/ \E i \in 1..Len(out) : out[i].filePath = f
    \/ \E i \in 1..Len(walk.files) :
           walk.files[i] = f /\ walk.mapped[i].state = "settled"

\* The files that lie directly in a directory
FilesIn(d) == {f \in PoolFiles : path_dirname(f) = d}

\* C26: at most concurrencyLimit (5) file tasks are in flight at any moment;
\* the files of a directory have all completed before a file of one of its
\* subdirectories starts, and the subdirectories are taken one at a time.
C26_BoundedConcurrency ==
    /\ Cardinality(InFlight) <= CONCURRENCY_DEFAULT
    /\ Cardinality({f \in PoolFiles : HasStarted(f) /\ ~HasCompleted(f)})
           <= CONCURRENCY_DEFAULT
    /\ \A g \in FilesIn(PoolFirstDir) \cup FilesIn(PoolSecondDir) :
           HasStarted(g) => \A f \in FilesIn(PoolRoot) :
                                 (\E ext \in DEFAULT_FILE_EXTENSIONS : endsWith(f, ext))
                                     => HasCompleted(f)
    /\ \A g \in FilesIn(PoolSecondDir) :
           HasStarted(g) =>
               \/ PoolFirstDir \in args.faults.readdir
               \/ \A f \in FilesIn(PoolFirstDir) : HasCompleted(f)

\* C26 witness: five files of the top directory are in flight, two of them
\* being written, and the two other files wait for a free place.
C26_Witness ==
    /\ pc = "walking"
    /\ Len(walk.files) = 7
    /\ Cardinality(InFlight) = CONCURRENCY_DEFAULT
    /\ Cardinality({i \in InFlight : walk.mapped[i].state = "writing"}) = 2
    /\ Cardinality({i \in 1..7 : walk.mapped[i].state = "queued"}) = 2

\* A file the run has to handle: its name ends in a configured extension and
\* it lies neither in node_modules nor in a dot-directory
IsEligiblePoolFile(f) ==
    /\ \E ext \in DEFAULT_FILE_EXTENSIONS : endsWith(f, ext)
    /\ path_dirname(f) \notin {PoolModulesDir, PoolHiddenDir}

\* C27: when the run returns, every eligible file under baseDir has exactly
\* one FileResult, was read exactly once and written at most once, and a
\* file that is not eligible was not touched; a file on disk holds either
\* its original content or the complete new content.
C27_OneTaskPerEligibleFile ==
    /\ \A f \in PoolFiles :
           /\ fsCalls[<<"writeFile", f>>] <= 1
           /\ fsCalls[<<"writeFile", f>>] = 1 => fsCalls[<<"readFile", f>>] = 1
           /\ disk[f] \in {"original", "converted"}
           /\ disk[f] = "converted" => fsCalls[<<"writeFile", f>>] = 1
    /\ pc = "returned" =>
           \A f \in PoolFiles :
               IF IsEligiblePoolFile(f)
               THEN /\ Cardinality({i \in 1..Len(out) : out[i].filePath = f}) = 1
                    /\ fsCalls[<<"readFile", f>>] = 1
               ELSE /\ Cardinality({i \in 1..Len(out) : out[i].filePath = f}) = 0
                    /\ fsCalls[<<"readFile", f>>] = 0

(***************************************************************************)
(* transformImportPathsLogic on the text of a file.  A statement is a form *)
(* and a source; the text of a file is its statements, one on a line.      *)
(***************************************************************************)
MaxRangeStatements == 2

RangeForms ==
    {"default", "named", "typed", "sideEffect", "star", "stringName", "dynamic", "const"}

\* The quote a form is written with
RangeQuote(form) == IF form = "named" THEN "'" ELSE "\""

\* The text of a statement before the opening quote of its source
RangePrefix(st) ==
    CASE st.form = "default" -> ImportWord \o <<" ", "x", " ">> \o FromWord \o <<" ">>
      [] st.form = "named" ->
             ImportWord \o <<" ", "{", " ", "x", " ", "}", " ">> \o FromWord \o <<" ">>
      [] st.form = "typed" ->
             ImportWord \o <<" ">> \o TypeWord \o <<" ", "{", " ", "x", " ", "}", " ">>
             \o FromWord \o <<" ">>
      [] st.form = "sideEffect" -> ImportWord \o <<" ">>
      [] st.form = "star" -> ExportWord \o <<" ", "*", " ">> \o FromWord \o <<" ">>
      [] st.form = "stringName" ->
             ImportWord \o <<" ", "{", " ", "\"">> \o st.source
             \o <<"\"", " ", "a", "s", " ", "x", " ", "}", " ">> \o FromWord \o <<" ">>
      [] st.form = "dynamic" ->
             <<"x", " ", "=", " ">> \o ImportWord \o <<"(">>
      [] st.form = "const" -> <<"s", " ", "=", " ">>

\* The text of a statement behind the closing quote of its source
RangeSuffix(st) == IF st.form = "dynamic" THEN <<")">> ELSE EMPTY

\* The text of a statement whose source is written as given
RangeStatementText(st, source) ==
    RangePrefix(st) \o <<RangeQuote(st.form)>> \o source \o <<RangeQuote(st.form)>>
    \o RangeSuffix(st)

\* A source with an escaped double quote in it: ./b\"c
EscapedQuoteSource == <<DOT, SLASH, "b", "\\", "\"", "c">>

RangeSources == {<<DOT, SLASH, "b">>, <<"~", SLASH, "b">>, Lodash, EscapedQuoteSource}

RangeStatements == [form : RangeForms, source : RangeSources]

RangeStatementLists ==
    UNION {[1..n -> RangeStatements] : n \in 0..MaxRangeStatements}

\* The text of a file whose k-th statement has the source sources[k]
RECURSIVE RangeFileText(_, _)
RangeFileText(statements, sources) ==
    IF Len(statements) = 0 THEN EMPTY
    ELSE IF Len(statements) = 1 THEN RangeStatementText(statements[1], sources[1])
    ELSE RangeStatementText(statements[1], sources[1]) \o <<NEWLINE>>
         \o RangeFileText(Tail(statements), Tail(sources))

AsWritten(statements) == [k \in 1..Len(statements) |-> statements[k].source]

\* The options processFileContent hands over for a file of SourceDir
RangeOptions ==
    {[fromType |-> t[1], toType |-> t[2], filePath |-> FileA, baseDir |-> SourceDir,
      aliasPrefix |-> <<"~", SLASH>>, strip |-> deriveStrip(t[1], SourceDir, <<>>)] :
        t \in {<<"relative", "alias">>, <<"alias", "relative">>}}

InitRanges ==
    /\ pc = "call"
    /\ args \in {[statements |-> sts, content |-> RangeFileText(sts, AsWritten(sts)),
                  options |-> o] :
                    sts \in RangeStatementLists, o \in RangeOptions}
    /\ out = <<>>
    /\ procCwd = ProjectDir
    /\ NoRun

CallTransformImportPathsLogic ==
    /\ pc = "call"
    /\ out' = <<transformedText(args.content, overwritesOf(args.content, args.options))>>
    /\ pc' = "transformed"
    /\ UNCHANGED <<args, procCwd, runVars>>

NextRanges == CallTransformImportPathsLogic

SpecRanges == InitRanges /\ [][NextRanges]_vars

\* The index, counted from 0, of the first character of the k-th statement
RECURSIVE StatementIndex(_, _)
StatementIndex(statements, k) ==
    IF k = 1 THEN 0
    ELSE StatementIndex(statements, k - 1)
         + Len(RangeStatementText(statements[k - 1], statements[k - 1].source)) + 1

\* The range between the quotes of the source of the k-th statement
SourceRange(statements, k) ==
    [start |-> StatementIndex(statements, k) + Len(RangePrefix(statements[k])) + 1,
     end |-> StatementIndex(statements, k) + Len(RangePrefix(statements[k])) + 1
             + Len(statements[k].source)]

\* The sources of the statements after the overwrites: the content of the
\* overwrite that starts where the source starts, the source where none does
Overwritten(statements, overwrites) ==
    [k \in 1..Len(statements) |->
        LET mine == {i \in 1..Len(overwrites) :
                        overwrites[i].start = SourceRange(statements, k).start}
        IN  IF mine = {} THEN statements[k].source
            ELSE overwrites[CHOOSE i \in mine : TRUE].content]

\* C28: the replacement ranges of a file are ranges of the original text,
\* no two of them overlap, each one is the range between the quotes of the
\* source of one import, export or dynamic import, and the new content is
\* the original with the converted source in each range: the quotes and
\* every character outside the ranges are as they were.
C28_RangesCoverSourcesOnly ==
    pc = "transformed" =>
        /\ ~out[1].threw
        /\ ~overwritesCollide(out[1].overwrites)
        /\ \A i \in 1..Len(out[1].overwrites) :
               \E k \in 1..Len(args.statements) :
                   /\ args.statements[k].form # "const"
                   /\ out[1].overwrites[i].start = SourceRange(args.statements, k).start
                   /\ out[1].overwrites[i].end = SourceRange(args.statements, k).end
                   /\ args.content[out[1].overwrites[i].start]
                          = RangeQuote(args.statements[k].form)
                   /\ args.content[out[1].overwrites[i].end + 1]
                          = RangeQuote(args.statements[k].form)
        /\ out[1].newContent
               = RangeFileText(args.statements,
                               Overwritten(args.statements, out[1].overwrites))

(***************************************************************************)
(* src/unnamed/part_005: convertImportsExt on a directory tree.  Every     *)
(* entry of a directory is a task of Promise.all(entries.map(async ...));  *)
(* a task runs up to its next await and goes on when that call settles.    *)
(* walk holds, for each path, how far its task is and, for a directory,    *)
(* its results array.  No call of the file system fails here.              *)
(***************************************************************************)
EXTENSIONS ==
    {TsExt, TsxExt, JsExt, JsxExt, <<DOT, "m", "j", "s">>, <<DOT, "c", "j", "s">>}

OrderRoot == <<SLASH, "r">>
OrderSubDir == OrderRoot \o <<SLASH, "d">>
OrderModulesDir == OrderRoot \o <<SLASH>> \o NodeModulesName
OrderDirectories == {OrderRoot, OrderSubDir, OrderModulesDir}

\* fs.readdir(targetDir, { withFileTypes: true }) on the tree
readdirOfOrder(targetDir) ==
    CASE targetDir = OrderRoot ->
           <<[name |-> <<"a">> \o DotTs, isDirectory |-> FALSE],
             [name |-> <<"d">>, isDirectory |-> TRUE],
             [name |-> <<"b">> \o DotTs, isDirectory |-> FALSE],
             [name |-> <<"n", DOT, "m", "d">>, isDirectory |-> FALSE],
             [name |-> NodeModulesName, isDirectory |-> TRUE]>>
      [] targetDir = OrderSubDir ->
           <<[name |-> <<"x">> \o DotTs, isDirectory |-> FALSE]>>
      [] targetDir = OrderModulesDir ->
           <<[name |-> <<"m">> \o DotTs, isDirectory |-> FALSE]>>
      [] OTHER -> <<>>

\* Every file of the tree, by its full path
OrderFiles ==
    UNION {{d \o <<SLASH>> \o readdirOfOrder(d)[i].name :
               i \in {j \in 1..Len(readdirOfOrder(d)) : ~readdirOfOrder(d)[j].isDirectory}} :
           d \in OrderDirectories}

OrderCalls ==
    ({"readFile", "writeFile"} \X OrderFiles) \cup ({"readdir"} \X OrderDirectories)

\* A file that imports from the given source
ImportingFile(source) == ExtFileText(<<ExtStatement("from", "\"", source)>>)

\* The files of the tree before the run: the three source files of the
\* walk import with a .js or a .ts extension
OrderDisks ==
    {files \in [OrderFiles -> {ImportingFile(RelativeJs), ImportingFile(RelativeTs)}] :
        \A f \in OrderFiles :
            extname(f) # TsExt \/ startsWith(f, OrderModulesDir)
                => files[f] = ImportingFile(RelativeJs)}

OrderInputs ==
    {[targetDir |-> OrderRoot, extFrom |-> "js", extTo |-> "ts", files |-> files] :
        files \in OrderDisks}
    \cup {[targetDir |-> OrderRoot, extFrom |-> "ts", extTo |-> "js", files |-> files] :
        files \in OrderDisks}

\* How far the task of an entry is; dir is the directory whose call started
\* it, results the results array of the call when the entry is a directory
OrderTask(state, dir) ==
    [state |-> state, dir |-> dir, updated |-> EMPTY, changes |-> <<>>, results |-> <<>>]

InitOrder ==
    /\ pc = "converting"
    /\ procCwd = OrderRoot
    /\ args \in OrderInputs
    /\ disk = args.files
    /\ out = <<>>
    /\ fsCalls = called([c \in OrderCalls |-> 0], "readdir", OrderRoot)
    /\ walk = [p \in OrderDirectories \cup OrderFiles |->
                  IF p = OrderRoot THEN OrderTask("listing", EMPTY)
                  ELSE OrderTask("idle", EMPTY)]
    /\ thrown = "none"

\* The tasks of the entries of a directory that are started and not done
unfinished(w, targetDir) ==
    {p \in DOMAIN w : w[p].dir = targetDir /\ w[p].state \notin {"idle", "done"}}

\* The task of an entry ends and pushes its items to the results of its
\* directory; when that was the last task of the directory, Promise.all
\* resolves and the call for the directory returns its results, which the
\* task of the directory pushes in turn: results.push(...subdirResults)
RECURSIVE taskDone(_, _, _)
taskDone(w, entry, items) ==
    LET targetDir == w[entry].dir
        pushed == [w EXCEPT ![entry].state = "done",
                            ![targetDir].results = @ \o items]
    IN  IF entry = OrderRoot THEN [w EXCEPT ![entry].state = "done"]
        ELSE IF unfinished(pushed, targetDir) # {} THEN pushed
        ELSE taskDone(pushed, targetDir, pushed[targetDir].results)

\* The task of one entry up to its first await
startEntry(targetDir, entry, fullPath, started) ==
    IF entry.isDirectory
    THEN IF entry.name = NodeModulesName THEN started
         ELSE [walk |-> [started.walk EXCEPT ![fullPath] = OrderTask("listing", targetDir)],
               calls |-> called(started.calls, "readdir", fullPath)]
    ELSE IF extname(entry.name) \in EXTENSIONS
    THEN [walk |-> [started.walk EXCEPT ![fullPath] = OrderTask("reading", targetDir)],
          calls |-> called(started.calls, "readFile", fullPath)]
    ELSE started

\* entries.map(async (entry) => ...): every task runs up to its first await
RECURSIVE startEntries(_, _, _)
startEntries(targetDir, i, started) ==
    IF i > Len(readdirOfOrder(targetDir)) THEN started
    ELSE startEntries(targetDir, i + 1,
                      startEntry(targetDir, readdirOfOrder(targetDir)[i],
                                 join(<<targetDir, readdirOfOrder(targetDir)[i].name>>),
                                 started))

\* The tasks of a directory are started; Promise.all resolves at once when
\* no entry has a task
readdirDone(targetDir, started) ==
    /\ walk' = IF unfinished(started.walk, targetDir) # {} THEN started.walk
               ELSE taskDone(started.walk, targetDir, <<>>)
    /\ fsCalls' = started.calls

\* fs.readdir of a directory has settled
OrderReaddirDone(targetDir) ==
    /\ pc = "converting"
    /\ targetDir \in OrderDirectories
    /\ walk[targetDir].state = "listing"
    /\ readdirDone(targetDir,
                   startEntries(targetDir, 1,
                                [walk |-> [walk EXCEPT ![targetDir].state = "waiting"],
                                 calls |-> fsCalls]))
    /\ UNCHANGED <<pc, args, out, procCwd, disk, thrown>>

\* fs.readFile of a file has settled: the imports are converted, and
\* fs.writeFile is called when the text has changed
OrderReadFileDone(fullPath) ==
    /\ pc = "converting"
    /\ fullPath \in OrderFiles
    /\ walk[fullPath].state = "reading"
    /\ LET content == disk[fullPath]
           converted == convertExtOfFile(content, args.extFrom, args.extTo)
       IN  IF content # converted.updated
           THEN /\ walk' = [walk EXCEPT ![fullPath].state = "writing",
                                        ![fullPath].updated = converted.updated,
                                        ![fullPath].changes = converted.changes]
                /\ fsCalls' = called(fsCalls, "writeFile", fullPath)
           ELSE /\ walk' = taskDone(walk, fullPath, <<>>)
                /\ fsCalls' = fsCalls
    /\ UNCHANGED <<pc, args, out, procCwd, disk, thrown>>

\* fs.writeFile of a file has settled: the file and its changes are pushed
OrderWriteFileDone(fullPath) ==
    /\ pc = "converting"
    /\ fullPath \in OrderFiles
    /\ walk[fullPath].state = "writing"
    /\ disk' = [disk EXCEPT ![fullPath] = walk[fullPath].updated]
    /\ walk' = taskDone(walk, fullPath,
                        IF Len(walk[fullPath].changes) > 0
                        THEN <<[file |-> fullPath, changes |-> walk[fullPath].changes]>>
                        ELSE <<>>)
    /\ UNCHANGED <<pc, args, out, procCwd, fsCalls, thrown>>

\* The call for targetDir returns its results
OrderReturn ==
    /\ pc = "converting"
    /\ walk[OrderRoot].state = "done"
    /\ pc' = "returned"
    /\ out' = walk[OrderRoot].results
    /\ UNCHANGED <<args, procCwd, runVars>>

NextOrder ==
    \/ \E targetDir \in OrderDirectories : OrderReaddirDone(targetDir)
    \/ \E fullPath \in OrderFiles : OrderReadFileDone(fullPath)
    \/ \E fullPath \in OrderFiles : OrderWriteFileDone(fullPath)
    \/ OrderReturn

SpecOrder == InitOrder /\ [][NextOrder]_vars

\* The entries the conversion changes, in the order readdir lists them, a
\* subdirectory standing where its entry stands
RECURSIVE EntryOrderFrom(_, _)
EntryOrderFrom(targetDir, i) ==
    IF i > Len(readdirOfOrder(targetDir)) THEN <<>>
    ELSE LET entry == readdirOfOrder(targetDir)[i]
             fullPath == join(<<targetDir, entry.name>>)
             converted == convertExtOfFile(args.files[fullPath], args.extFrom, args.extTo)
             mine == IF entry.isDirectory
                     THEN IF entry.name = NodeModulesName THEN <<>>
                          ELSE EntryOrderFrom(fullPath, 1)
                     ELSE IF extname(entry.name) \in EXTENSIONS
                             /\ converted.updated # args.files[fullPath]
                          THEN <<[file |-> fullPath, changes |-> converted.changes]>>
                          ELSE <<>>
         IN  mine \o EntryOrderFrom(targetDir, i + 1)

\* C29: the list convertImportsExt returns for a tree is the same for
\* every interleaving of the tasks of its entries: it is the list of the
\* changed files in the order of the entries, whichever call settles first.
C29_ResultOrderIndependent ==
    pc = "returned" => out = EntryOrderFrom(OrderRoot, 1)

====
